---- MODULE Spec2Model ----
(***************************************************************************)
(* The fragment read engine of TileDB (core/src/fragment/read_state.cc):   *)
(* the ReadState object of one (fragment, query) pair and its read calls.  *)
(*                                                                         *)
(* The state is the ReadState object (rs), the query it was built for      *)
(* (array), what the last read call handed back to its caller (ret) and    *)
(* the history of what the caller has received so far (hist).  A read call *)
(* is one action: the whole call runs to completion on the calling thread. *)
(*                                                                         *)
(* Bytes are identified by where they come from: byte b of an attribute    *)
(* file is the integer b, so a caller buffer is a list of segments         *)
(* <<first byte, length>> of the attribute file.  Entries of an offsets    *)
(* buffer are pairs <<cell, off>>: the cell the entry belongs to and the   *)
(* offset value that was written for it.                                   *)
(***************************************************************************)
EXTENDS Integers, Sequences, FiniteSets, TLC

VARIABLES array, rs, ret, hist

vars == <<array, rs, ret, hist>>

(***************************************************************************)
(* Bounds of the model.                                                    *)
(***************************************************************************)
\* Number of read calls issued on one ReadState.
MaxCalls == 3

(***************************************************************************)
(* Values that stand for C++ values with no integer counterpart.           *)
(***************************************************************************)
\* A null pointer.
NULL == 0 - 1
\* An indeterminate value: memory that was never written, or the content
\* of a buffer after a failed read.
Junk == 0 - 2
\* size_t arithmetic is modular.  The modulus of the model is larger than
\* every quantity of the model, as 2^64 is in the program.
SizeModulus == 2 ^ 20

SizeSub(a, b) == IF a >= b THEN a - b ELSE a - b + SizeModulus

Min(a, b) == IF a < b THEN a ELSE b

Max(a, b) == IF a > b THEN a ELSE b

\* C++ integer division truncates towards zero.
\* With(v, LAMBDA x : e) is e with x standing for the value v.
With(v, Body(_)) == Body(v)

CDiv(a, b) == IF a >= 0 THEN a \div b ELSE 0 - ((0 - a) \div b)

(***************************************************************************)
(* The array schema (ArraySchema): 2 dimensions, attribute 0 ("a1") of     *)
(* fixed-size int32 cells, attribute 1 ("a2") of variable-sized cells,     *)
(* and the coordinates as attribute attribute_num.                         *)
(***************************************************************************)
dim_num == 2

attribute_num == 2

TILEDB_CELL_VAR_OFFSET_SIZE == 8

\* sizeof(int): the cells of a1, and one coordinate.
IntSize == 4

var_size(attribute_id) == attribute_id = 1

coords_size == dim_num * IntSize

cell_size(attribute_id) ==
  IF attribute_id = attribute_num THEN coords_size
  ELSE IF var_size(attribute_id) THEN TILEDB_CELL_VAR_OFFSET_SIZE
  ELSE IntSize

\* Dense arrays: two by two tiles; the domain is [0,3] x [0,3] in tiles of
\* 2 x 2 cells, or [0,5] x [0,3] in tiles of 3 x 2 cells.
tile_extents == array.tile_extents

domain == <<0, 2 * tile_extents[1] - 1, 0, 2 * tile_extents[2] - 1>>

tile_domain == <<0, 1, 0, 1>>

cell_num_per_tile == tile_extents[1] * tile_extents[2]

\* Sparse arrays: tiles of at most capacity cells.
capacity == 4

tile_size(attribute_id) ==
  IF array.dense THEN cell_num_per_tile * cell_size(attribute_id)
  ELSE capacity * cell_size(attribute_id)

\* Position of a cell inside its tile (row-major cell order).
get_cell_pos(coords) == coords[1] * tile_extents[2] + coords[2]

\* Position of a tile in the global tile order (row-major tile order).
get_tile_pos(coords) ==
  coords[1] * (tile_domain[4] - tile_domain[3] + 1) + coords[2]

\* The tile coordinates that follow coords inside the box dom of the tile
\* domain; past the last tile of the box the first coordinate leaves it.
get_next_tile_coords(dom, coords) ==
  IF coords[2] + 1 > dom[4]
  THEN <<coords[1] + 1, dom[3]>>
  ELSE <<coords[1], coords[2] + 1>>

\* Overlap of the query range with the tile at tile coordinates coords:
\* the overlap range in cell coordinates relative to the tile, and its kind
\* (0 none, 1 full, 2 partial non-contiguous, 3 partial contiguous).
TileOverlapRange(range, coords) ==
  [i \in 1..(2 * dim_num) |->
     LET d  == (i + 1) \div 2
         lo == domain[2 * d - 1] + coords[d] * tile_extents[d]
         hi == lo + tile_extents[d] - 1
     IN IF i % 2 = 1 THEN Max(lo, range[i]) - lo ELSE Min(hi, range[i]) - lo]

DimFull(overlap_range, d) ==
  /\ overlap_range[2 * d - 1] = 0
  /\ overlap_range[2 * d] = tile_extents[d] - 1

compute_tile_range_overlap(range, coords) ==
  With(TileOverlapRange(range, coords), LAMBDA overlap_range :
  LET none == \E d \in 1..dim_num :
                \/ overlap_range[2 * d - 1] >= tile_extents[d]
                \/ overlap_range[2 * d] < 0
                \/ overlap_range[2 * d - 1] > overlap_range[2 * d]
      overlap == IF none THEN 0
                 ELSE IF \A d \in 1..dim_num : DimFull(overlap_range, d) THEN 1
                 ELSE IF \A d \in 2..dim_num : DimFull(overlap_range, d) THEN 3
                 ELSE 2
  IN [overlap_range |-> overlap_range, overlap |-> overlap])

\* Number of cells of a range, of one of its slabs and of a slab of a tile.
cell_num_in_range(r) == (r[2] - r[1] + 1) * (r[4] - r[3] + 1)

cell_num_in_range_slab(r) == r[4] - r[3] + 1

cell_num_in_tile_slab == tile_extents[2]

(***************************************************************************)
(* The fragment on disk (BookKeeping and the attribute files).  Cell k of  *)
(* the fragment, in the global cell order, occupies bytes                  *)
(* [k * cell_size, (k+1) * cell_size) of a fixed attribute file; its       *)
(* variable-sized value has VarLen(k) bytes, as in the write example       *)
(* ("a", "bb", "ccc", "dddd", ...).                                        *)
(***************************************************************************)
VarLen(k) == (k % 4) + 1

RECURSIVE VarFileOffset(_)
\* Offset of the value of cell k in the variable file.
VarFileOffset(k) == IF k <= 0 THEN 0 ELSE VarFileOffset(k - 1) + VarLen(k - 1)

\* Cells of a full tile, and first cell of the tile at position pos.
FullTileCells == IF array.dense THEN cell_num_per_tile ELSE capacity

FirstCell(pos) == pos * FullTileCells

(***************************************************************************)
(* Caller buffers.  A fixed or variable buffer is a sequence of segments   *)
(* <<first, len>>: len bytes of the attribute file starting at byte first  *)
(* (Junk when the bytes are indeterminate); adjacent segments are merged.  *)
(* An offsets buffer is a sequence of entries <<cell, off>>.               *)
(***************************************************************************)
AppendSeg(buf, first, len) ==
  IF len <= 0 THEN buf
  ELSE IF /\ Len(buf) > 0
          /\ \/ first = Junk /\ buf[Len(buf)][1] = Junk
             \/ first # Junk /\ buf[Len(buf)][1] # Junk
                             /\ buf[Len(buf)][1] + buf[Len(buf)][2] = first
       THEN [buf EXCEPT ![Len(buf)] = <<@[1], @[2] + len>>]
       ELSE Append(buf, <<first, len>>)

RECURSIVE SegBytes(_)
\* Number of bytes of a sequence of segments.
SegBytes(buf) == IF buf = <<>> THEN 0 ELSE buf[1][2] + SegBytes(Tail(buf))

RECURSIVE SegPrefix(_, _)
\* The first n bytes of a sequence of segments.
SegPrefix(buf, n) ==
  IF n <= 0 \/ buf = <<>> THEN <<>>
  ELSE IF buf[1][2] >= n THEN << <<buf[1][1], n>> >>
  ELSE <<buf[1]>> \o SegPrefix(Tail(buf), n - buf[1][2])

RECURSIVE SegConcat(_, _)
\* Concatenation of two sequences of segments, merging where they meet.
SegConcat(b1, b2) ==
  IF b2 = <<>> THEN b1
  ELSE SegConcat(AppendSeg(b1, b2[1][1], b2[1][2]), Tail(b2))

(***************************************************************************)
(* The context of a read call: the ReadState (rs), the caller buffer(s) of *)
(* the attribute being read with their running offsets, the number of      *)
(* external operations done so far (io), the fault injected into the call, *)
(* the return code of the last function (rc) and, once the call cannot     *)
(* return any more, why (halt): "ABORT" for a failed assert, "UB" for      *)
(* undefined behaviour, "HANG" for a loop that cannot terminate.           *)
(***************************************************************************)
Halted(c) == c.halt # ""

Halt(c, why) == IF Halted(c) THEN c ELSE [c EXCEPT !.halt = why]

\* assert(cond) of <cassert>: compiled out when NDEBUG is defined.
assert(c, cond) == IF cond \/ array.ndebug THEN c ELSE Halt(c, "ABORT")

Return(c, code) == [c EXCEPT !.rc = code]

\* An external operation failed: the function that issued it returns an
\* error, and the context remembers that a failure happened.
Fail(c) == [c EXCEPT !.rc = "ERR", !.failed = TRUE]

\* The position of the attribute is an index of the overlapping tile list.
InList(c, attribute_id) ==
  /\ c.rs.overlapping_tiles_pos_[attribute_id] >= 0
  /\ c.rs.overlapping_tiles_pos_[attribute_id] < Len(c.rs.overlapping_tiles_)

\* overlapping_tiles_[overlapping_tiles_pos_[attribute_id]]
CurTile(c, attribute_id) ==
  c.rs.overlapping_tiles_[c.rs.overlapping_tiles_pos_[attribute_id] + 1]

\* An external operation of the given kind fails when it is the operation
\* the fault of the call names and the fault is of that kind.
IoFails(c, kind) == c.fault.at = c.io + 1 /\ c.fault.kind = kind

Io(c) == [c EXCEPT !.io = @ + 1]

\* n bytes of the tile buffer of the attribute, from tile offset o: bytes
\* past the logical size of the tile, or of a tile whose read failed, are
\* indeterminate.
TileBytes(c, attribute_id, o, n) ==
  LET t     == c.rs.tiles_[attribute_id]
      size  == c.rs.tiles_sizes_[attribute_id]
      valid == IF t = Junk \/ o >= size THEN 0 ELSE Min(n, size - o)
      first == t * tile_size(attribute_id) + o
  IN AppendSeg(AppendSeg(<<>>, first, valid), Junk, n - valid)

\* memcpy(buffer + buffer_offset, tile + tile_offset, n), and the advance
\* of buffer_offset that follows it everywhere.
memcpy(c, attribute_id, o, n) ==
  IF c.rs.tiles_[attribute_id] = NULL THEN Halt(c, "UB")
  ELSE [c EXCEPT !.buffer = SegConcat(@, TileBytes(c, attribute_id, o, n)),
                 !.buffer_offset = @ + n]

(***************************************************************************)
(* The memory the ReadState owns (mem of the context).  at: what each tile *)
(* pointer designates ("null", a "heap" block, or a "map"ping); lost: the  *)
(* heap blocks whose only pointer was overwritten; live: the slots whose   *)
(* mapping is live; entries: the heap blocks of the fields coords_ and     *)
(* overlap_range_ of the entries of the overlapping tile list.             *)
(***************************************************************************)
TileSlots ==
  {<<"tiles_", i>> : i \in 0..attribute_num}
  \cup {<<"tiles_var_", i>> : i \in 0..(attribute_num - 1)}
  \cup {<<"tile_compressed_", 0>>}

NoMemory ==
  [at |-> [s \in TileSlots |-> "null"], lost |-> 0, live |-> {}, entries |-> 0]

\* if(p == NULL) p = malloc(...), and a realloc of a heap block.
Allocated(c, slot) ==
  IF c.mem.at[slot] = "null" THEN [c EXCEPT !.mem.at[slot] = "heap"] ELSE c

\* The tile pointer a slot of map_addr_, map_addr_var_ or
\* map_addr_compressed_ is copied to.
TileSlotOf(slot) ==
  CASE slot[1] = "map_addr_" -> <<"tiles_", slot[2]>>
    [] slot[1] = "map_addr_var_" -> <<"tiles_var_", slot[2]>>
    [] OTHER -> <<"tile_compressed_", 0>>

\* What a read_tile_from_file_with_mmap_* does to the memory: nothing when
\* the munmap at its entry fails; otherwise the previous mapping is
\* released and the tile pointer is overwritten with the address of the new
\* mapping, or with NULL when the mapping could not be made or was released
\* after a close that failed.
Remapped(c, slot, held) ==
  IF held /\ IoFails(c, "munmap") THEN c.mem
  ELSE
    LET made == ~(IoFails(c, "open") \/ IoFails(c, "mmap") \/ IoFails(c, "close"))
    IN [c.mem EXCEPT
          !.live = IF made THEN @ \cup {slot} ELSE @ \ {slot},
          !.at[TileSlotOf(slot)] = IF made THEN "map" ELSE "null",
          !.lost = @ + (IF c.mem.at[TileSlotOf(slot)] = "heap" THEN 1 ELSE 0)]

\* The heap blocks of an entry of the list: coords_ and overlap_range_ of
\* an entry of a dense fragment (none for the entry of the constructor),
\* overlap_range_ of an entry of a sparse fragment.
EntryBlocks(tile) ==
  IF array.dense THEN (IF tile.coords_ = <<>> THEN 0 ELSE 2) ELSE 1

RECURSIVE ListBlocks(_)
ListBlocks(list) ==
  IF list = <<>> THEN 0 ELSE EntryBlocks(list[1]) + ListBlocks(Tail(list))

(***************************************************************************)
(* The reaper.                                                             *)
(***************************************************************************)
SetMin(S) == CHOOSE m \in S : \A x \in S : m <= x

\* The minimum the loop of the reaper computes: it starts from the position
\* of attribute 0 and goes over attribute_ids[1 .. attribute_id_num-1].
ReaperMinPos(c) ==
  SetMin({c.rs.overlapping_tiles_pos_[0]} \cup
         {c.rs.overlapping_tiles_pos_[array.attribute_ids[i]] :
            i \in 2..Len(array.attribute_ids)})

\* The call keeps what every reap found and what it left (reaps).
Reaped(c, d) ==
  [d EXCEPT !.reaps = Append(@, [before |-> c.rs, after |-> d.rs])]

clean_up_processed_overlapping_tiles(c) ==
  With(ReaperMinPos(c), LAMBDA min_pos :
  LET n       == Len(c.rs.overlapping_tiles_)
  IN IF min_pos = 0 THEN Reaped(c, c)
     ELSE IF min_pos < 0 \/ min_pos > n THEN Halt(c, "UB")
     ELSE Reaped(c, [c EXCEPT
             !.mem.entries = @ - ListBlocks(SubSeq(c.rs.overlapping_tiles_,
                                                   1, min_pos)),
             !.rs.overlapping_tiles_ = SubSeq(@, min_pos + 1, n),
             !.rs.overlapping_tiles_pos_ =
                [i \in DOMAIN @ |-> IF @[i] # 0 THEN @[i] - min_pos ELSE @[i]]]))

(***************************************************************************)
(* The overlap iterator of dense fragments.                                *)
(***************************************************************************)
OverlapKind(overlap) ==
  CASE overlap = 0 -> "NONE"
    [] overlap = 1 -> "FULL"
    [] overlap = 2 -> "PARTIAL_NON_CONTIG"
    [] overlap = 3 -> "PARTIAL_CONTIG"

get_next_overlapping_tile_dense(c) ==
  LET list == c.rs.overlapping_tiles_
      rid  == c.rs.range_in_tile_domain_
      prev == list[Len(list)].coords_
  IN With(IF Len(list) = 0 THEN <<rid[1], rid[3]>>
          ELSE get_next_tile_coords(rid, prev), LAMBDA coords :
  With(compute_tile_range_overlap(array.range, coords), LAMBDA ov :
  LET overlapping_tile ==
        [pos_ |-> get_tile_pos(coords),
         overlap_ |-> OverlapKind(ov.overlap),
         coords_ |-> coords,
         overlap_range_ |-> ov.overlap_range,
         cell_num_ |-> cell_num_per_tile,
         cell_pos_ranges_ |-> <<>>,
         coords_tile_fetched_ |-> FALSE]
  IN IF Len(list) > 0 /\ prev = <<>> THEN Halt(c, "UB")
     ELSE clean_up_processed_overlapping_tiles(
            [c EXCEPT !.rs.overlapping_tiles_ = Append(@, overlapping_tile),
                      !.mem.entries = @ + EntryBlocks(overlapping_tile)])))

(***************************************************************************)
(* Tile I/O for uncompressed attributes.                                   *)
(***************************************************************************)
\* read_from_file of utils: open, seek, read, close.
ReadFails(c) ==
  \/ IoFails(c, "read")
  \/ c.mmap /\ (IoFails(c, "open") \/ IoFails(c, "close"))

\* READ_FROM_FILE: read_from_file, or read_from_file_with_mmap of utils.
READ_FROM_FILE_fails(c) ==
  IF c.mmap
  THEN IoFails(c, "open") \/ IoFails(c, "mmap") \/ IoFails(c, "close")
       \/ IoFails(c, "munmap")
  ELSE IoFails(c, "read")

read_tile_from_file_cmp_none(c, attribute_id, pos, tile_size_) ==
  LET c1 == [Allocated(c, <<"tiles_", attribute_id>>)
               EXCEPT !.rs.tiles_sizes_[attribute_id] = tile_size_]
  IN IF IoFails(c, "read")
     THEN Fail(Io([c1 EXCEPT !.rs.tiles_[attribute_id] = Junk]))
     ELSE Return(Io([c1 EXCEPT !.rs.tiles_[attribute_id] = pos]), "OK")

\* The call keeps what every read_tile_from_file_with_mmap_* did to its
\* slot (maps): whether the slot held a mapping (held), the munmap calls in
\* their order, each with its target ("previous": the address the slot
\* held on entry, "new": the mapping just made) and whether that target was a
\* live mapping when munmap was called (live), and whether the slot was
\* mapped again (mapped).
Mapped(c, slot, held, unmaps, mapped) ==
  [c EXCEPT !.maps = Append(@, [slot |-> slot, held |-> held, unmaps |-> unmaps,
                                mapped |-> mapped]),
            !.mem = Remapped(c, slot, held)]

\* The munmap at the entry of the functions: only for a slot that holds a
\* mapping.
ReleasePrevious(held) ==
  IF held THEN <<[target |-> "previous", live |-> TRUE]>> ELSE <<>>

\* The munmap after a close that failed.
ReleaseNew == <<[target |-> "new", live |-> TRUE]>>

\* The munmap of the functions of the compressed scratch after an open that
\* failed: of the address the slot held on entry, released by then.
ReleaseAgain == <<[target |-> "previous", live |-> FALSE]>>

\* The munmap calls of one function call; again: those after a failed open.
MapEvents(c, held, again) ==
  ReleasePrevious(held)
  \o (IF held /\ IoFails(c, "munmap") THEN <<>>
      ELSE IF IoFails(c, "open") THEN again
      ELSE IF IoFails(c, "close") THEN ReleaseNew
      ELSE <<>>)

IsMapped(c, held) ==
  /\ ~(held /\ IoFails(c, "munmap"))
  /\ ~IoFails(c, "open")
  /\ ~IoFails(c, "mmap")

read_tile_from_file_with_mmap_cmp_none(c, attribute_id, pos, tile_size_) ==
  LET dropped == [c EXCEPT !.rs.map_addr_[attribute_id] = NULL,
                           !.rs.tiles_[attribute_id] = NULL,
                           !.rs.tiles_sizes_[attribute_id] = 0]
      held == c.rs.map_addr_[attribute_id] # NULL
  IN With(Mapped(c, <<"map_addr_", attribute_id>>, held,
                 MapEvents(c, held, <<>>), IsMapped(c, held)), LAMBDA c0 :
     IF held /\ IoFails(c, "munmap")
     THEN Fail(Io(c0))
     ELSE IF IoFails(c, "open") \/ IoFails(c, "mmap") \/ IoFails(c, "close")
     THEN Fail(Io([dropped EXCEPT !.maps = c0.maps, !.mem = c0.mem]))
     ELSE Return(Io([c0 EXCEPT !.rs.map_addr_[attribute_id] = pos,
                               !.rs.tiles_[attribute_id] = pos,
                               !.rs.tiles_sizes_[attribute_id] = tile_size_]),
                 "OK"))

READ_TILE_FROM_FILE_CMP_NONE(c, attribute_id, pos, tile_size_) ==
  IF c.mmap
  THEN read_tile_from_file_with_mmap_cmp_none(c, attribute_id, pos, tile_size_)
  ELSE read_tile_from_file_cmp_none(c, attribute_id, pos, tile_size_)

SetFetched(c, attribute_id) ==
  IF attribute_id = attribute_num
  THEN [c EXCEPT !.rs.overlapping_tiles_[
                     c.rs.overlapping_tiles_pos_[attribute_id] + 1
                   ].coords_tile_fetched_ = TRUE]
  ELSE c

get_tile_from_disk_cmp_none(c, attribute_id) ==
  IF ~InList(c, attribute_id) THEN Halt(c, "UB")
  ELSE
    LET overlapping_tile == CurTile(c, attribute_id)
        tile_size_ == overlapping_tile.cell_num_ * cell_size(attribute_id)
    IN With(READ_TILE_FROM_FILE_CMP_NONE(
              c, attribute_id, overlapping_tile.pos_, tile_size_), LAMBDA c1 :
    IF attribute_id = attribute_num /\ overlapping_tile.coords_tile_fetched_
    THEN Return(c, "OK")
    ELSE IF c1.rc # "OK" THEN c1
    ELSE Return(SetFetched(
                  [c1 EXCEPT !.rs.tiles_offsets_[attribute_id] = 0],
                  attribute_id), "OK"))

(***************************************************************************)
(* The copy engine: fixed-sized cells, dense fragments.                    *)
(***************************************************************************)
SetOverflow(c, attribute_id) == [c EXCEPT !.rs.overflow_[attribute_id] = TRUE]

\* ++overlapping_tiles_pos_[attribute_id]
NextPos(c, attribute_id) ==
  [c EXCEPT !.rs.overlapping_tiles_pos_[attribute_id] = @ + 1]

\* memcpy from the tile buffer at the tile cursor, advancing both cursors.
CopyFromTile(c, attribute_id, n) ==
  [memcpy(c, attribute_id, c.rs.tiles_offsets_[attribute_id], n)
     EXCEPT !.rs.tiles_offsets_[attribute_id] = @ + n]

\* The call keeps what the runs of the copy routines of fixed-sized cells
\* did (copies): the routine (kind), the entry of the tile, and the cursors,
\* the buffer, the position and the overflow flag of the attribute before
\* (c) and after (d) the run.
Copied(kind, c, attribute_id, d) ==
  IF Halted(d) THEN d
  ELSE [d EXCEPT !.copies =
          Append(@, [kind |-> kind, attribute_id |-> attribute_id,
                     tile |-> CurTile(c, attribute_id),
                     tile_size |-> c.rs.tiles_sizes_[attribute_id],
                     cursor |-> c.rs.tiles_offsets_[attribute_id],
                     cursor_after |-> d.rs.tiles_offsets_[attribute_id],
                     buffer_size |-> c.buffer_size,
                     buffer_offset |-> c.buffer_offset,
                     buffer_offset_after |-> d.buffer_offset,
                     copied |-> SegBytes(d.buffer) - SegBytes(c.buffer),
                     pos |-> c.rs.overlapping_tiles_pos_[attribute_id],
                     pos_after |-> d.rs.overlapping_tiles_pos_[attribute_id],
                     overflow |-> c.rs.overflow_[attribute_id],
                     overflow_after |-> d.rs.overflow_[attribute_id]])]

copy_from_tile_buffer_full(c, attribute_id) ==
  LET bytes_left_to_copy ==
        SizeSub(c.rs.tiles_sizes_[attribute_id], c.rs.tiles_offsets_[attribute_id])
      c0 == assert(c, bytes_left_to_copy # 0)
      buffer_free_space == SizeSub(c.buffer_size, c.buffer_offset)
      bytes_to_copy == Min(bytes_left_to_copy, buffer_free_space)
  IN With(IF bytes_to_copy # 0 THEN CopyFromTile(c0, attribute_id, bytes_to_copy)
          ELSE c0, LAMBDA c1 :
  Copied("full", c, attribute_id,
  IF bytes_left_to_copy - bytes_to_copy > 0
  THEN SetOverflow(assert(c1, c1.buffer_offset = c1.buffer_size), attribute_id)
  ELSE NextPos(assert(c1, c1.rs.tiles_offsets_[attribute_id] =
                            c1.rs.tiles_sizes_[attribute_id]), attribute_id)))

copy_from_tile_buffer_partial_contig_dense(c, attribute_id) ==
  LET buffer_free_space == SizeSub(c.buffer_size, c.buffer_offset)
      overlap_range == CurTile(c, attribute_id).overlap_range_
      start_offset ==
        get_cell_pos(<<overlap_range[1], overlap_range[3]>>) * cell_size(attribute_id)
      range_size == cell_num_in_range(overlap_range) * cell_size(attribute_id)
      end_offset == start_offset + range_size - 1
      c1 == IF c.rs.tiles_offsets_[attribute_id] = 0
            THEN [c EXCEPT !.rs.tiles_offsets_[attribute_id] = start_offset]
            ELSE c
      bytes_left_to_copy ==
        SizeSub(end_offset + 1, c1.rs.tiles_offsets_[attribute_id])
      bytes_to_copy == Min(bytes_left_to_copy, buffer_free_space)
  IN With(CopyFromTile(c1, attribute_id, bytes_to_copy), LAMBDA c2 :
  IF buffer_free_space = 0 THEN SetOverflow(c, attribute_id)
  ELSE IF overlap_range = <<>> THEN Halt(c, "UB")
  ELSE IF c2.rs.tiles_offsets_[attribute_id] = end_offset + 1
  THEN NextPos([c2 EXCEPT !.rs.tiles_offsets_[attribute_id] =
                            c2.rs.tiles_sizes_[attribute_id]], attribute_id)
  ELSE SetOverflow(assert(c2, c2.buffer_offset = c2.buffer_size), attribute_id))

RECURSIVE CopyRestOfSlabs(_, _, _, _, _)
\* CopyRestOfSlabs going on with the bytes that follow the slab in the tile.
CopyRestOfSlabsOnward(c, attribute_id, range_end_offset, range_slab_size, tile_slab_size) ==
  IF \/ Halted(c)
     \/ c.buffer_offset = c.buffer_size
     \/ c.rs.tiles_offsets_[attribute_id] = range_end_offset + 1
  THEN c
  ELSE
    LET buffer_free_space == SizeSub(c.buffer_size, c.buffer_offset)
        bytes_to_copy == Min(range_slab_size, buffer_free_space)
    IN With(CopyFromTile(c, attribute_id, bytes_to_copy), LAMBDA c1 :
       CopyRestOfSlabs(c1, attribute_id, range_end_offset, range_slab_size,
                       tile_slab_size))

\* The while loop of copy_from_tile_buffer_partial_non_contig_dense.
CopyRestOfSlabs(c, attribute_id, range_end_offset, range_slab_size, tile_slab_size) ==
  IF \/ Halted(c)
     \/ c.buffer_offset = c.buffer_size
     \/ c.rs.tiles_offsets_[attribute_id] = range_end_offset + 1
  THEN c
  ELSE
    LET buffer_free_space == SizeSub(c.buffer_size, c.buffer_offset)
        bytes_to_copy == Min(range_slab_size, buffer_free_space)
    IN With(CopyFromTile(c, attribute_id, bytes_to_copy), LAMBDA c1 :
    LET c2 == IF /\ bytes_to_copy = range_slab_size
                 /\ c1.rs.tiles_offsets_[attribute_id] # range_end_offset + 1
              THEN [c1 EXCEPT !.rs.tiles_offsets_[attribute_id] =
                                @ + tile_slab_size - bytes_to_copy]
              ELSE c1
    IN CopyRestOfSlabs(c2, attribute_id, range_end_offset, range_slab_size,
                       tile_slab_size))

\* The first memcpy of the slab walk is bounded by the size of the buffer.
FirstSlabBound(c) == c.buffer_size

copy_from_tile_buffer_partial_non_contig_dense(c, attribute_id) ==
  LET buffer_free_space == SizeSub(c.buffer_size, c.buffer_offset)
      overlap_range == CurTile(c, attribute_id).overlap_range_
      cell_size_ == cell_size(attribute_id)
      range_start_offset ==
        get_cell_pos(<<overlap_range[1], overlap_range[3]>>) * cell_size_
      range_end_offset ==
        (get_cell_pos(<<overlap_range[2], overlap_range[4]>>) + 1) * cell_size_ - 1
      c1 == IF c.rs.tiles_offsets_[attribute_id] < range_start_offset
            THEN [c EXCEPT !.rs.tiles_offsets_[attribute_id] = range_start_offset]
            ELSE c
      range_slab_size == cell_num_in_range_slab(overlap_range) * cell_size_
      tile_slab_size == cell_num_in_tile_slab * cell_size_
      current_slab_start_offset ==
        ((c1.rs.tiles_offsets_[attribute_id] - range_start_offset)
           \div tile_slab_size) * tile_slab_size + range_start_offset
      current_slab_end_offset == current_slab_start_offset + range_slab_size - 1
      bytes_in_current_slab_left_to_copy ==
        SizeSub(current_slab_end_offset + 1, c1.rs.tiles_offsets_[attribute_id])
  IN With(Min(bytes_in_current_slab_left_to_copy, FirstSlabBound(c)), LAMBDA bytes_to_copy :
  With(CopyFromTile(c1, attribute_id, bytes_to_copy), LAMBDA c2 :
  LET c3 == IF /\ bytes_to_copy = bytes_in_current_slab_left_to_copy
               /\ c2.rs.tiles_offsets_[attribute_id] # range_end_offset + 1
            THEN [c2 EXCEPT !.rs.tiles_offsets_[attribute_id] =
                              @ + tile_slab_size - range_slab_size]
            ELSE c2
  IN With(CopyRestOfSlabs(c3, attribute_id, range_end_offset, range_slab_size,
                          tile_slab_size), LAMBDA c4 :
  Copied("slabs", c, attribute_id,
  IF buffer_free_space = 0 THEN SetOverflow(c, attribute_id)
  ELSE IF overlap_range = <<>> THEN Halt(c, "UB")
  ELSE IF c4.rs.tiles_offsets_[attribute_id] = range_end_offset + 1
  THEN NextPos([c4 EXCEPT !.rs.tiles_offsets_[attribute_id] =
                            c4.rs.tiles_sizes_[attribute_id]], attribute_id)
  ELSE SetOverflow(assert(c4, c4.buffer_offset = c4.buffer_size), attribute_id)))))

copy_from_tile_buffer_dense(c, attribute_id) ==
  IF ~InList(c, attribute_id) THEN Halt(c, "UB")
  ELSE LET overlap == CurTile(c, attribute_id).overlap_
       IN CASE overlap = "FULL" -> copy_from_tile_buffer_full(c, attribute_id)
            [] overlap = "PARTIAL_NON_CONTIG" ->
                 copy_from_tile_buffer_partial_non_contig_dense(c, attribute_id)
            [] overlap = "PARTIAL_CONTIG" ->
                 copy_from_tile_buffer_partial_contig_dense(c, attribute_id)
            [] OTHER -> c

(***************************************************************************)
(* Copy of the next tile of an uncompressed fixed attribute, dense.        *)
(***************************************************************************)
\* READ_FROM_FILE(filename, file_offset, buffer + buffer_offset, n), and
\* what the direct copy functions do when it succeeds.
DirectCopy(c, attribute_id, file_offset, n) ==
  IF READ_FROM_FILE_fails(c) THEN Fail(Io(c))
  ELSE Return(NextPos([Io(c) EXCEPT !.buffer = AppendSeg(@, file_offset, n),
                                    !.buffer_offset = @ + n], attribute_id),
              "OK")

copy_tile_full_direct(c, attribute_id, tile_size_) ==
  LET c0 == assert(c, tile_size_ <= SizeSub(c.buffer_size, c.buffer_offset))
      file_offset == CurTile(c, attribute_id).pos_ * tile_size(attribute_id)
  IN DirectCopy(c0, attribute_id, file_offset, tile_size_)

copy_tile_full(c, attribute_id) ==
  LET c0 == assert(c, ~var_size(attribute_id))
      buffer_free_space == SizeSub(c.buffer_size, c.buffer_offset)
      tile_size_ == CurTile(c, attribute_id).cell_num_ * cell_size(attribute_id)
  IN With(get_tile_from_disk_cmp_none(c0, attribute_id), LAMBDA c1 :
  IF buffer_free_space = 0 THEN Return(SetOverflow(c0, attribute_id), "OK")
  ELSE IF tile_size_ <= buffer_free_space
  THEN copy_tile_full_direct(c0, attribute_id, tile_size_)
  ELSE IF Halted(c1) \/ c1.rc # "OK" THEN Return(c1, "ERR")
  ELSE Return(copy_from_tile_buffer_full(c1, attribute_id), "OK"))

copy_tile_partial_contig_direct_dense(c, attribute_id, result_size) ==
  LET overlapping_tile == CurTile(c, attribute_id)
      overlap_range == overlapping_tile.overlap_range_
      c0 == assert(c, ~var_size(attribute_id))
      start_offset ==
        get_cell_pos(<<overlap_range[1], overlap_range[3]>>) * cell_size(attribute_id)
      file_offset == overlapping_tile.pos_ * tile_size(attribute_id) + start_offset
  IN DirectCopy(c0, attribute_id, file_offset, result_size)

\* What copy_tile_partial_contig_dense and _sparse make of the return code
\* of the direct copy: they return success whatever it is.
DirectResult(c) == Return(c, "OK")

copy_tile_partial_contig_dense(c, attribute_id) ==
  LET buffer_free_space == SizeSub(c.buffer_size, c.buffer_offset)
      overlap_range == CurTile(c, attribute_id).overlap_range_
      result_size == cell_num_in_range(overlap_range) * cell_size(attribute_id)
  IN With(get_tile_from_disk_cmp_none(c, attribute_id), LAMBDA c1 :
  IF buffer_free_space = 0 THEN Return(SetOverflow(c, attribute_id), "OK")
  ELSE IF result_size <= buffer_free_space
  THEN DirectResult(
         copy_tile_partial_contig_direct_dense(c, attribute_id, result_size))
  ELSE IF Halted(c1) \/ c1.rc # "OK" THEN Return(c1, "ERR")
  ELSE Return(copy_from_tile_buffer_partial_contig_dense(c1, attribute_id), "OK"))

\* A copy that takes the tile of a partial overlap for a tile of full
\* overlap.
copy_tile_partial_non_contig_dense_whole(c, attribute_id) ==
  With(get_tile_from_disk_cmp_none(c, attribute_id), LAMBDA c1 :
  IF Halted(c1) \/ c1.rc # "OK" THEN Return(c1, "ERR")
  ELSE Return(copy_from_tile_buffer_full(c1, attribute_id), "OK"))

copy_tile_partial_non_contig_dense(c, attribute_id) ==
  With(get_tile_from_disk_cmp_none(c, attribute_id), LAMBDA c1 :
  IF Halted(c1) \/ c1.rc # "OK" THEN Return(c1, "ERR")
  ELSE Return(copy_from_tile_buffer_partial_non_contig_dense(c1, attribute_id),
              "OK"))

(***************************************************************************)
(* The read loops of the facade: uncompressed fixed attribute, dense.      *)
(***************************************************************************)
\* A fragment that takes every attribute file to exist.
is_empty_attribute_never(attribute_id) == attribute_id \in {}

is_empty_attribute(attribute_id) == attribute_id \in array.empty

\* buffer_size = buffer_offset; return TILEDB_RS_OK
ReturnSize(c) == Return([c EXCEPT !.buffer_size = c.buffer_offset], "OK")

\* An iteration of a read loop that leaves the read state and the buffers
\* as it found them: every later iteration does the same, the loop never ends.
NoProgress(d, c) ==
  [d EXCEPT !.io = c.io, !.rc = c.rc, !.failed = c.failed,
            !.reaps = c.reaps, !.resolves = c.resolves, !.steps = c.steps,
            !.copies = c.copies, !.maps = c.maps, !.mem = c.mem] = c

\* overlapping_tiles_pos_[attribute_id] >= overlapping_tiles_.size(), an
\* unsigned comparison.
PastList(c, attribute_id) ==
  \/ c.rs.overlapping_tiles_pos_[attribute_id] < 0
  \/ c.rs.overlapping_tiles_pos_[attribute_id] >= Len(c.rs.overlapping_tiles_)

\* tiles_offsets_[attribute_id] < tiles_sizes_[attribute_id]
Pending(c, attribute_id) ==
  c.rs.tiles_offsets_[attribute_id] < c.rs.tiles_sizes_[attribute_id]

RECURSIVE read_dense_attr_cmp_none_T(_, _)
read_dense_attr_cmp_none_T(c, attribute_id) ==
  With(IF Pending(c, attribute_id)
       THEN copy_from_tile_buffer_dense(c, attribute_id) ELSE c, LAMBDA c1 :
  With(IF PastList(c1, attribute_id)
       THEN get_next_overlapping_tile_dense(c1) ELSE c1, LAMBDA c2 :
  LET overlap == CurTile(c2, attribute_id).overlap_
  IN With(CASE overlap = "FULL" -> copy_tile_full(c2, attribute_id)
            [] overlap = "PARTIAL_CONTIG" ->
                 copy_tile_partial_contig_dense(c2, attribute_id)
            [] OTHER -> copy_tile_partial_non_contig_dense(c2, attribute_id), LAMBDA c3 :
  IF Halted(c1) THEN c1
  ELSE IF c1.rs.overflow_[attribute_id] THEN ReturnSize(c1)
  ELSE IF Halted(c2) THEN c2
  ELSE IF ~InList(c2, attribute_id) THEN Halt(c2, "UB")
  ELSE IF overlap = "NONE" THEN ReturnSize(c2)
  ELSE IF Halted(c3) THEN c3
  ELSE IF c3.rc # "OK" THEN Return(c3, "ERR")
  ELSE IF c3.rs.overflow_[attribute_id] THEN ReturnSize(c3)
  ELSE IF NoProgress(c3, c) THEN Halt(c3, "HANG")
  ELSE read_dense_attr_cmp_none_T(c3, attribute_id))))

read_dense_attr_cmp_none(c, attribute_id) ==
  IF is_empty_attribute(attribute_id)
  THEN Return([c EXCEPT !.buffer_size = 0], "OK")
  ELSE read_dense_attr_cmp_none_T(c, attribute_id)

(***************************************************************************)
(* Construction.                                                           *)
(***************************************************************************)
\* The sentinel entry the constructor pushes when the range overlaps
\* nothing: only overlap_, overlap_range_ and coords_ are set.
SentinelTile ==
  [pos_ |-> Junk, overlap_ |-> "NONE", coords_ |-> <<>>, overlap_range_ |-> <<>>,
   cell_num_ |-> Junk, cell_pos_ranges_ |-> <<>>, coords_tile_fetched_ |-> FALSE]

init_range_in_tile_domain(r) ==
  LET range == array.range
      range_in_tile_domain ==
        [i \in 1..(2 * dim_num) |->
           LET d == (i + 1) \div 2
               q == CDiv(range[i] - domain[2 * d - 1], tile_extents[d])
           IN IF i % 2 = 1 THEN Max(q, tile_domain[i]) ELSE Min(q, tile_domain[i])]
      overlap == \A d \in 1..dim_num :
                   ~ \/ range_in_tile_domain[2 * d - 1] > tile_domain[2 * d]
                     \/ range_in_tile_domain[2 * d] < tile_domain[2 * d - 1]
  IN [r EXCEPT !.range_in_tile_domain_ = range_in_tile_domain,
               !.overlapping_tiles_ = IF overlap THEN @ ELSE Append(@, SentinelTile)]

\* The members as the constructor initializes them, before it computes the
\* range in the tile domain (dense) or the tile search range (sparse).
Initializations ==
  [overlapping_tiles_ |-> <<>>,
   overlapping_tiles_pos_ |-> [i \in 0..attribute_num |-> 0],
   cell_pos_range_pos_ |-> [i \in 0..attribute_num |-> 0],
   overflow_ |-> [i \in 0..attribute_num |-> FALSE],
   map_addr_ |-> [i \in 0..attribute_num |-> NULL],
   map_addr_var_ |-> [i \in 0..attribute_num |-> NULL],
   tiles_ |-> [i \in 0..attribute_num |-> NULL],
   tiles_offsets_ |-> [i \in 0..attribute_num |-> 0],
   tiles_sizes_ |-> [i \in 0..attribute_num |-> 0],
   tiles_var_ |-> [i \in 0..(attribute_num - 1) |-> NULL],
   tiles_var_offsets_ |-> [i \in 0..(attribute_num - 1) |-> 0],
   tiles_var_sizes_ |-> [i \in 0..(attribute_num - 1) |-> 0],
   tile_compressed_ |-> NULL,
   map_addr_compressed_ |-> NULL,
   range_in_tile_domain_ |-> <<>>,
   tile_search_range_ |-> <<Junk, Junk>>]


\* The context a read call starts in.  mmap: whether the build defines
\* _TILEDB_USE_MMAP.
NewContext(fault) ==
  [rs |-> rs, fault |-> fault, io |-> 0, rc |-> "OK", halt |-> "",
   buffer |-> <<>>, buffer_offset |-> 0, buffer_size |-> 0,
   buffer_var |-> <<>>, buffer_var_offset |-> 0, buffer_var_size |-> 0,
   tile_var_size |-> 0, mismatch |-> FALSE, failed |-> FALSE,
   sizes |-> <<>>, out |-> <<>>, pre |-> rs, reaps |-> <<>>, resolves |-> <<>>,
   mmap |-> array.mmap, buffer_i |-> 0, steps |-> <<>>, copies |-> <<>>,
   maps |-> <<>>, mem |-> hist.mem]

NoFault == [at |-> 0, kind |-> "none"]

(***************************************************************************)
(* Variable-sized cells: the offsets tile, the variable tile and the       *)
(* helper that fits a run of cells into both caller buffers.               *)
(***************************************************************************)
\* tile[i] of the offsets tile of the attribute: the offsets of a loaded
\* tile are relative to the start of its variable tile.  Junk outside the
\* logical size of the tile.
TileOff(c, attribute_id, i) ==
  LET t == c.rs.tiles_[attribute_id]
  IN IF \/ t < 0
        \/ i < 0
        \/ i * TILEDB_CELL_VAR_OFFSET_SIZE >= c.rs.tiles_sizes_[attribute_id]
     THEN Junk
     ELSE VarFileOffset(FirstCell(t) + i) - VarFileOffset(FirstCell(t))

\* Difference of two offsets in size_t arithmetic; Junk if either is.
OffDiff(a, b) == IF a = Junk \/ b = Junk THEN Junk ELSE SizeSub(a, b)

RECURSIVE FitSearch(_, _, _, _, _, _)
\* The binary search of compute_bytes_to_copy: <<min, max, med>> when the
\* loop is left.  It cannot be followed over an indeterminate offset, which
\* shows as med = Junk.
FitSearch(c, attribute_id, start_cell_pos, min, max, free_var) ==
  IF min > max THEN <<min, max, Junk>>
  ELSE LET med == min + ((max - min) \div 2)
           bytes == OffDiff(TileOff(c, attribute_id, med),
                            TileOff(c, attribute_id, start_cell_pos))
       IN IF bytes = Junk THEN <<0, 0, Junk>>
          ELSE IF bytes > free_var
          THEN With(FitSearch(c, attribute_id, start_cell_pos, min, med - 1,
                              free_var), LAMBDA r :
               IF r[1] > r[2] /\ r[3] = Junk THEN <<r[1], r[2], med>> ELSE r)
          ELSE IF bytes < free_var
          THEN With(FitSearch(c, attribute_id, start_cell_pos, med + 1, max,
                              free_var), LAMBDA r :
               IF r[1] > r[2] /\ r[3] = Junk THEN <<r[1], r[2], med>> ELSE r)
          ELSE <<min, max, med>>

\* The last cell chosen when the brackets of the search invert.
FitFallback(max) == max - 1

\* The result of compute_bytes_to_copy: bytes_to_copy, bytes_var_to_copy,
\* and ub when it had to read an indeterminate offset.
compute_bytes_to_copy(c, attribute_id, start_cell_pos, end_cell_pos, buffer_free_space, buffer_var_free_space) ==
  LET cell_num == CurTile(c, attribute_id).cell_num_
      first == TileOff(c, attribute_id, start_cell_pos)
      whole == IF end_cell_pos + 1 < cell_num
               THEN OffDiff(TileOff(c, attribute_id, end_cell_pos + 1), first)
               ELSE OffDiff(c.rs.tiles_var_sizes_[attribute_id], first)
  IN With(FitSearch(c, attribute_id, start_cell_pos, start_cell_pos,
                    end_cell_pos, buffer_var_free_space), LAMBDA r :
  With(IF r[2] < r[1] THEN FitFallback(r[2]) ELSE r[3], LAMBDA end2 :
  LET fitted == OffDiff(TileOff(c, attribute_id, end2 + 1), first)
  IN IF buffer_free_space = 0 \/ buffer_var_free_space = 0
     THEN [bytes_to_copy |-> 0, bytes_var_to_copy |-> 0, ub |-> FALSE]
     ELSE IF whole = Junk
     THEN [bytes_to_copy |-> 0, bytes_var_to_copy |-> 0, ub |-> TRUE]
     ELSE IF whole <= buffer_var_free_space
     THEN [bytes_to_copy |->
             (end_cell_pos - start_cell_pos + 1) * TILEDB_CELL_VAR_OFFSET_SIZE,
           bytes_var_to_copy |-> whole, ub |-> FALSE]
     ELSE IF (r[2] >= r[1] /\ r[3] = Junk) \/ fitted = Junk
     THEN [bytes_to_copy |-> 0, bytes_var_to_copy |-> 0, ub |-> TRUE]
     ELSE [bytes_to_copy |->
             (end2 - start_cell_pos + 1) * TILEDB_CELL_VAR_OFFSET_SIZE,
           bytes_var_to_copy |-> fitted, ub |-> FALSE]))

\* memcpy(buffer_start, tile_start, n) for an offsets tile: the entries of
\* the cells from the tile cursor on, with their tile-local offsets.
OffsetEntries(c, attribute_id, n) ==
  LET first == c.rs.tiles_offsets_[attribute_id] \div TILEDB_CELL_VAR_OFFSET_SIZE
      t == c.rs.tiles_[attribute_id]
  IN [i \in 1..(n \div TILEDB_CELL_VAR_OFFSET_SIZE) |->
        LET off == TileOff(c, attribute_id, first + i - 1)
        IN IF off = Junk THEN <<Junk, Junk>>
           ELSE <<FirstCell(t) + first + i - 1, off>>]

\* shift_var_offsets(buffer + at, offset_num, new_start_offset): the
\* entries rebased are those the buffer holds from byte at on; what lies
\* behind the last entry written is memory the model does not track.
shift_var_offsets(buffer, at, offset_num, new_start_offset) ==
  LET p == at \div TILEDB_CELL_VAR_OFFSET_SIZE
  IN [i \in 1..Len(buffer) |->
        IF i > p /\ i <= p + offset_num
        THEN <<buffer[i][1],
               IF buffer[i][2] = Junk \/ buffer[p + 1][2] = Junk THEN Junk
               ELSE buffer[i][2] - buffer[p + 1][2] + new_start_offset>>
        ELSE buffer[i]]

\* n bytes of the variable tile of the attribute from its cursor on.
TileVarBytes(c, attribute_id, n) ==
  LET t     == c.rs.tiles_var_[attribute_id]
      o     == c.rs.tiles_var_offsets_[attribute_id]
      size  == c.rs.tiles_var_sizes_[attribute_id]
      valid == IF t < 0 \/ o < 0 \/ o >= size THEN 0 ELSE Min(n, size - o)
  IN AppendSeg(AppendSeg(<<>>, VarFileOffset(FirstCell(t)) + o, valid),
               Junk, n - valid)

\* The call keeps what every copy step of a variable attribute did (steps):
\* the entries of the offsets buffer before and after the step, the number
\* of entries the step emitted, the byte of the buffer at which and the
\* number of entries on which shift_var_offsets was called, and the cursor
\* of the variable buffer before the step.
Stepped(c, bytes_to_copy, shift_at, offset_num, d) ==
  [d EXCEPT !.steps =
     Append(@, [before |-> c.buffer, after |-> d.buffer,
                emitted |-> bytes_to_copy \div TILEDB_CELL_VAR_OFFSET_SIZE,
                shift_at |-> shift_at, offset_num |-> offset_num,
                buffer_offset |-> c.buffer_offset,
                buffer_var_offset |-> c.buffer_var_offset])]

\* The copy step all variable copy functions share: memcpy of the offset
\* entries, shift_var_offsets on offset_num entries at byte shift_at of the
\* offsets buffer, memcpy of the variable bytes; all four cursors advance.
CopyVarStep(c, attribute_id, bytes_to_copy, bytes_var_to_copy, shift_at, offset_num) ==
  IF c.rs.tiles_[attribute_id] = NULL \/ c.rs.tiles_var_[attribute_id] = NULL
  THEN Halt(c, "UB")
  ELSE Stepped(c, bytes_to_copy, shift_at, offset_num,
         [c EXCEPT
          !.buffer = shift_var_offsets(
                       @ \o OffsetEntries(c, attribute_id, bytes_to_copy),
                       shift_at, offset_num, c.buffer_var_offset),
          !.buffer_offset = @ + bytes_to_copy,
          !.rs.tiles_offsets_[attribute_id] = @ + bytes_to_copy,
          !.buffer_var = SegConcat(@, TileVarBytes(c, attribute_id, bytes_var_to_copy)),
          !.buffer_var_offset = @ + bytes_var_to_copy,
          !.rs.tiles_var_offsets_[attribute_id] = @ + bytes_var_to_copy])

(***************************************************************************)
(* The copy engine: variable-sized cells, dense fragments.                 *)
(***************************************************************************)
copy_from_tile_buffer_full_var(c, attribute_id) ==
  LET bytes_left_to_copy ==
        SizeSub(c.rs.tiles_sizes_[attribute_id], c.rs.tiles_offsets_[attribute_id])
      buffer_free_space == SizeSub(c.buffer_size, c.buffer_offset)
      buffer_var_free_space == SizeSub(c.buffer_var_size, c.buffer_var_offset)
      start_cell_pos ==
        c.rs.tiles_offsets_[attribute_id] \div TILEDB_CELL_VAR_OFFSET_SIZE
      end_cell_pos ==
        start_cell_pos - 1 +
        (Min(bytes_left_to_copy, buffer_free_space) \div TILEDB_CELL_VAR_OFFSET_SIZE)
  IN With(compute_bytes_to_copy(c, attribute_id, start_cell_pos, end_cell_pos,
                                buffer_free_space, buffer_var_free_space), LAMBDA b :
  With(IF b.bytes_to_copy # 0
       THEN CopyVarStep(c, attribute_id, b.bytes_to_copy, b.bytes_var_to_copy,
                        c.buffer_offset, end_cell_pos - start_cell_pos + 1)
       ELSE c, LAMBDA c1 :
  LET c2 == assert(c1, c1.rs.tiles_offsets_[attribute_id] =
                         c1.rs.tiles_sizes_[attribute_id])
  IN IF b.ub THEN Halt(c, "UB")
     ELSE IF bytes_left_to_copy - b.bytes_to_copy = 0
     THEN NextPos(assert(c2, c2.rs.tiles_var_offsets_[attribute_id] =
                               c2.rs.tiles_var_sizes_[attribute_id]), attribute_id)
     ELSE SetOverflow(c1, attribute_id)))

\* tiles_var_offsets_[attribute_id] = tile_s[cell_pos]
SetVarOffset(c, attribute_id, cell_pos) ==
  IF TileOff(c, attribute_id, cell_pos) = Junk THEN Halt(c, "UB")
  ELSE [c EXCEPT !.rs.tiles_var_offsets_[attribute_id] =
                   TileOff(c, attribute_id, cell_pos)]

copy_from_tile_buffer_partial_contig_dense_var(c, attribute_id) ==
  LET buffer_free_space == SizeSub(c.buffer_size, c.buffer_offset)
      buffer_var_free_space == SizeSub(c.buffer_var_size, c.buffer_var_offset)
      overlap_range == CurTile(c, attribute_id).overlap_range_
      c0 == assert(c, var_size(attribute_id))
      start_cell_pos == get_cell_pos(<<overlap_range[1], overlap_range[3]>>)
      start_offset == start_cell_pos * TILEDB_CELL_VAR_OFFSET_SIZE
      range_size == cell_num_in_range(overlap_range) * TILEDB_CELL_VAR_OFFSET_SIZE
      end_cell_pos == start_cell_pos + cell_num_in_range(overlap_range) - 1
      end_offset == start_offset + range_size - 1
  IN With(compute_bytes_to_copy(c, attribute_id, start_cell_pos, end_cell_pos,
                                buffer_free_space, buffer_var_free_space), LAMBDA b :
  With(IF c0.rs.tiles_offsets_[attribute_id] = 0
       THEN SetVarOffset(
              [c0 EXCEPT !.rs.tiles_offsets_[attribute_id] = start_offset],
              attribute_id, start_cell_pos)
       ELSE c0, LAMBDA c1 :
  With(CopyVarStep(c1, attribute_id, b.bytes_to_copy, b.bytes_var_to_copy,
                   c1.buffer_offset, end_cell_pos - start_cell_pos + 1), LAMBDA c2 :
  IF buffer_free_space = 0 \/ buffer_var_free_space = 0
  THEN SetOverflow(c, attribute_id)
  ELSE IF overlap_range = <<>> \/ b.ub THEN Halt(c, "UB")
  ELSE IF b.bytes_to_copy = 0 THEN SetOverflow(c0, attribute_id)
  ELSE IF Halted(c1) THEN c1
  ELSE IF Halted(c2) THEN c2
  ELSE IF c2.rs.tiles_offsets_[attribute_id] = end_offset + 1
  THEN NextPos([c2 EXCEPT
                  !.rs.tiles_offsets_[attribute_id] =
                     c2.rs.tiles_sizes_[attribute_id],
                  !.rs.tiles_var_offsets_[attribute_id] =
                     c2.rs.tiles_var_sizes_[attribute_id]], attribute_id)
  ELSE SetOverflow(c2, attribute_id))))

\* "Go to the start of the next slab": the tile cursor skips the cells of
\* the tile slab outside the range and the variable cursor follows it.
NextSlabVar(c, attribute_id, skip) ==
  LET c1 == [c EXCEPT !.rs.tiles_offsets_[attribute_id] = @ + skip]
  IN IF c1.rs.tiles_offsets_[attribute_id] # c1.rs.tiles_sizes_[attribute_id]
     THEN SetVarOffset(c1, attribute_id,
            c1.rs.tiles_offsets_[attribute_id] \div TILEDB_CELL_VAR_OFFSET_SIZE)
     ELSE [c1 EXCEPT !.rs.tiles_var_offsets_[attribute_id] =
                       c1.rs.tiles_var_sizes_[attribute_id]]

RECURSIVE CopyRestOfSlabsVar(_, _, _, _, _, _)
\* The while loop of copy_from_tile_buffer_partial_non_contig_dense_var.
CopyRestOfSlabsVar(c, attribute_id, range_end_offset, range_slab_size, tile_slab_size, cell_num_in_range_slab_) ==
  IF Halted(c) \/ c.rs.tiles_offsets_[attribute_id] = range_end_offset + 1
  THEN c
  ELSE
    LET buffer_free_space == SizeSub(c.buffer_size, c.buffer_offset)
        buffer_var_free_space == SizeSub(c.buffer_var_size, c.buffer_var_offset)
        start_cell_pos ==
          c.rs.tiles_offsets_[attribute_id] \div TILEDB_CELL_VAR_OFFSET_SIZE
        end_cell_pos == start_cell_pos + cell_num_in_range_slab_ - 1
    IN With(compute_bytes_to_copy(c, attribute_id, start_cell_pos, end_cell_pos,
                                  buffer_free_space, buffer_var_free_space), LAMBDA b :
    With(CopyVarStep(c, attribute_id, b.bytes_to_copy, b.bytes_var_to_copy,
                     c.buffer_offset, end_cell_pos - start_cell_pos + 1), LAMBDA c1 :
    IF b.ub THEN Halt(c, "UB")
    ELSE IF b.bytes_to_copy = 0 THEN c
    ELSE IF /\ b.bytes_to_copy = range_slab_size
            /\ c1.rs.tiles_offsets_[attribute_id] # range_end_offset + 1
    THEN CopyRestOfSlabsVar(
           NextSlabVar(c1, attribute_id, tile_slab_size - b.bytes_to_copy),
           attribute_id, range_end_offset, range_slab_size, tile_slab_size,
           cell_num_in_range_slab_)
    ELSE c1))

copy_from_tile_buffer_partial_non_contig_dense_var(c, attribute_id) ==
  LET buffer_free_space == SizeSub(c.buffer_size, c.buffer_offset)
      buffer_var_free_space == SizeSub(c.buffer_var_size, c.buffer_var_offset)
      overlap_range == CurTile(c, attribute_id).overlap_range_
      c0 == assert(c, var_size(attribute_id))
      range_start_cell_pos == get_cell_pos(<<overlap_range[1], overlap_range[3]>>)
      range_end_cell_pos == get_cell_pos(<<overlap_range[2], overlap_range[4]>>)
      range_start_offset == range_start_cell_pos * TILEDB_CELL_VAR_OFFSET_SIZE
      range_end_offset ==
        (range_end_cell_pos + 1) * TILEDB_CELL_VAR_OFFSET_SIZE - 1
  IN With(IF c0.rs.tiles_offsets_[attribute_id] < range_start_offset
          THEN SetVarOffset(
                 [c0 EXCEPT !.rs.tiles_offsets_[attribute_id] = range_start_offset],
                 attribute_id, range_start_cell_pos)
          ELSE c0, LAMBDA c1 :
  LET range_slab_size ==
        cell_num_in_range_slab(overlap_range) * TILEDB_CELL_VAR_OFFSET_SIZE
      tile_slab_size == cell_num_in_tile_slab * TILEDB_CELL_VAR_OFFSET_SIZE
      current_slab_start_offset ==
        ((c1.rs.tiles_offsets_[attribute_id] - range_start_offset)
           \div tile_slab_size) * tile_slab_size + range_start_offset
      current_slab_end_offset == current_slab_start_offset + range_slab_size - 1
      bytes_in_current_slab_left_to_copy ==
        SizeSub(current_slab_end_offset + 1, c1.rs.tiles_offsets_[attribute_id])
      start_cell_pos == current_slab_start_offset \div TILEDB_CELL_VAR_OFFSET_SIZE
      end_cell_pos ==
        ((current_slab_end_offset + 1) \div TILEDB_CELL_VAR_OFFSET_SIZE) - 1
  IN With(compute_bytes_to_copy(c1, attribute_id, start_cell_pos, end_cell_pos,
                                buffer_free_space, buffer_var_free_space), LAMBDA b :
  With(CopyVarStep(c1, attribute_id, b.bytes_to_copy, b.bytes_var_to_copy,
                   c1.buffer_offset, end_cell_pos - start_cell_pos + 1), LAMBDA c2 :
  LET c3 == IF /\ b.bytes_to_copy = bytes_in_current_slab_left_to_copy
               /\ c2.rs.tiles_offsets_[attribute_id] # range_end_offset + 1
            THEN NextSlabVar(c2, attribute_id, tile_slab_size - range_slab_size)
            ELSE c2
  IN With(CopyRestOfSlabsVar(c3, attribute_id, range_end_offset, range_slab_size,
            tile_slab_size, cell_num_in_range_slab(overlap_range)), LAMBDA c4 :
  IF buffer_free_space = 0 \/ buffer_var_free_space = 0
  THEN SetOverflow(c, attribute_id)
  ELSE IF overlap_range = <<>> THEN Halt(c, "UB")
  ELSE IF Halted(c1) THEN c1
  ELSE IF b.ub THEN Halt(c1, "UB")
  ELSE IF b.bytes_to_copy = 0 THEN SetOverflow(c1, attribute_id)
  ELSE IF Halted(c4) THEN c4
  ELSE IF c4.rs.tiles_offsets_[attribute_id] = range_end_offset + 1
  THEN NextPos([c4 EXCEPT
                  !.rs.tiles_offsets_[attribute_id] =
                     c4.rs.tiles_sizes_[attribute_id],
                  !.rs.tiles_var_offsets_[attribute_id] =
                     c4.rs.tiles_var_sizes_[attribute_id]], attribute_id)
  ELSE SetOverflow(c4, attribute_id)))))

copy_from_tile_buffer_dense_var(c, attribute_id) ==
  IF ~InList(c, attribute_id) THEN Halt(c, "UB")
  ELSE LET overlap == CurTile(c, attribute_id).overlap_
       IN CASE overlap = "FULL" -> copy_from_tile_buffer_full_var(c, attribute_id)
            [] overlap = "PARTIAL_NON_CONTIG" ->
                 copy_from_tile_buffer_partial_non_contig_dense_var(c, attribute_id)
            [] overlap = "PARTIAL_CONTIG" ->
                 copy_from_tile_buffer_partial_contig_dense_var(c, attribute_id)
            [] OTHER -> c

(***************************************************************************)
(* Tile I/O and copy of the next tile: uncompressed variable attribute.    *)
(***************************************************************************)
\* BookKeeping::tile_num()
tile_num == IF array.dense THEN 4 ELSE 3

\* Cells of the fragment.
CellNum == IF array.dense THEN tile_num * cell_num_per_tile ELSE 10

\* Size of the variable tile at position pos, as the offsets file and the
\* size of the variable file give it.
TileVarSize(pos) ==
  IF pos # tile_num - 1
  THEN VarFileOffset(FirstCell(pos + 1)) - VarFileOffset(FirstCell(pos))
  ELSE VarFileOffset(CellNum) - VarFileOffset(FirstCell(pos))

\* open, read and close failures of compute_tile_var_size.
SyscallFails(c) ==
  IoFails(c, "read") \/ IoFails(c, "open") \/ IoFails(c, "close")

\* rc and, in tile_var_size, the size computed.
compute_tile_var_size(c, attribute_id, tile_pos) ==
  IF array.compression[attribute_id] = "GZIP"
  THEN [Return(c, "OK") EXCEPT !.tile_var_size = TileVarSize(tile_pos)]
  ELSE IF SyscallFails(c) THEN Fail(Io(c))
  ELSE [Return(Io(c), "OK") EXCEPT !.tile_var_size = TileVarSize(tile_pos)]

read_tile_from_file_var_cmp_none(c, attribute_id, pos, tile_size_) ==
  LET c1 == [Allocated(c, <<"tiles_var_", attribute_id>>)
               EXCEPT !.rs.tiles_var_sizes_[attribute_id] = tile_size_]
  IN IF IoFails(c, "read")
     THEN Fail(Io([c1 EXCEPT !.rs.tiles_var_[attribute_id] = Junk]))
     ELSE Return(Io([c1 EXCEPT !.rs.tiles_var_[attribute_id] = pos]), "OK")

read_tile_from_file_with_mmap_var_cmp_none(c, attribute_id, pos, tile_size_) ==
  LET dropped == [c EXCEPT !.rs.map_addr_var_[attribute_id] = NULL,
                           !.rs.tiles_var_[attribute_id] = NULL,
                           !.rs.tiles_var_sizes_[attribute_id] = 0]
      held == c.rs.map_addr_var_[attribute_id] # NULL
  IN With(Mapped(c, <<"map_addr_var_", attribute_id>>, held,
                 MapEvents(c, held, <<>>), IsMapped(c, held)), LAMBDA c0 :
     IF held /\ IoFails(c, "munmap")
     THEN Fail(Io(c0))
     ELSE IF IoFails(c, "open") \/ IoFails(c, "mmap") \/ IoFails(c, "close")
     THEN Fail(Io([dropped EXCEPT !.maps = c0.maps, !.mem = c0.mem]))
     ELSE Return(Io([c0 EXCEPT !.rs.map_addr_var_[attribute_id] = pos,
                               !.rs.tiles_var_[attribute_id] = pos,
                               !.rs.tiles_var_sizes_[attribute_id] = tile_size_]),
                 "OK"))

READ_TILE_FROM_FILE_VAR_CMP_NONE(c, attribute_id, pos, tile_size_) ==
  IF c.mmap
  THEN read_tile_from_file_with_mmap_var_cmp_none(c, attribute_id, pos, tile_size_)
  ELSE read_tile_from_file_var_cmp_none(c, attribute_id, pos, tile_size_)

get_tile_from_disk_var_cmp_none(c, attribute_id) ==
  IF ~InList(c, attribute_id) THEN Halt(c, "UB")
  ELSE
    LET overlapping_tile == CurTile(c, attribute_id)
        c0 == assert(c, var_size(attribute_id))
        tile_size_ == overlapping_tile.cell_num_ * TILEDB_CELL_VAR_OFFSET_SIZE
        pos == overlapping_tile.pos_
    IN With(READ_TILE_FROM_FILE_CMP_NONE(c0, attribute_id, pos, tile_size_), LAMBDA c1 :
    With(IF pos # tile_num - 1
         THEN IF ReadFails(c1) THEN Fail(Io(c1))
              ELSE Return(Io(c1), "OK")
         ELSE c1, LAMBDA c2 :
    With(READ_TILE_FROM_FILE_VAR_CMP_NONE(c2, attribute_id, pos,
                                          TileVarSize(pos)), LAMBDA c3 :
    IF Halted(c0) THEN c0
    ELSE IF c1.rc # "OK" THEN c1
    ELSE IF c2.rc # "OK" THEN c2
    ELSE IF c3.rc # "OK" THEN c3
    ELSE Return([c3 EXCEPT !.rs.tiles_offsets_[attribute_id] = 0,
                           !.rs.tiles_var_offsets_[attribute_id] = 0], "OK"))))

\* The two READ_FROM_FILE of the direct copy of a whole variable tile, the
\* shift of the offsets read and the advance of the cursors.
copy_tile_full_direct_var(c, attribute_id, tile_size_, tile_var_size) ==
  LET c0 == assert(c, tile_size_ <= SizeSub(c.buffer_size, c.buffer_offset))
      pos == CurTile(c, attribute_id).pos_
      entries == [i \in 1..(tile_size_ \div TILEDB_CELL_VAR_OFFSET_SIZE) |->
                    <<FirstCell(pos) + i - 1, VarFileOffset(FirstCell(pos) + i - 1)>>]
      c1 == [Io(c0) EXCEPT !.buffer = @ \o entries]
      c2 == [Io(c1) EXCEPT
               !.buffer = shift_var_offsets(@, c.buffer_offset,
                            tile_size_ \div TILEDB_CELL_VAR_OFFSET_SIZE,
                            c.buffer_var_offset),
               !.buffer_offset = @ + tile_size_,
               !.buffer_var = AppendSeg(@, VarFileOffset(FirstCell(pos)),
                                        tile_var_size),
               !.buffer_var_offset = @ + tile_var_size]
  IN IF Halted(c0) THEN c0
     ELSE IF READ_FROM_FILE_fails(c0) THEN Fail(Io(c0))
     ELSE IF READ_FROM_FILE_fails(c1)
     THEN Fail([Io(c1) EXCEPT !.buffer = c.buffer])
     ELSE Return(NextPos(Stepped(c, tile_size_, c.buffer_offset,
                                 tile_size_ \div TILEDB_CELL_VAR_OFFSET_SIZE, c2),
                         attribute_id), "OK")

copy_tile_full_var(c, attribute_id) ==
  LET buffer_free_space == SizeSub(c.buffer_size, c.buffer_offset)
      buffer_var_free_space == SizeSub(c.buffer_var_size, c.buffer_var_offset)
      overlapping_tile == CurTile(c, attribute_id)
      tile_size_ == overlapping_tile.cell_num_ * TILEDB_CELL_VAR_OFFSET_SIZE
      c0 == assert(c, var_size(attribute_id))
  IN With(compute_tile_var_size(c0, attribute_id, overlapping_tile.pos_), LAMBDA c1 :
  With(get_tile_from_disk_var_cmp_none(c1, attribute_id), LAMBDA c2 :
  IF Halted(c0) THEN c0
  ELSE IF c1.rc # "OK" THEN Return(c1, "ERR")
  ELSE IF tile_size_ <= buffer_free_space /\ c1.tile_var_size <= buffer_var_free_space
  THEN copy_tile_full_direct_var(c1, attribute_id, tile_size_, c1.tile_var_size)
  ELSE IF Halted(c2) \/ c2.rc # "OK" THEN Return(c2, "ERR")
  ELSE Return(copy_from_tile_buffer_full_var(c2, attribute_id), "OK")))

copy_tile_partial_contig_dense_var(c, attribute_id) ==
  With(get_tile_from_disk_var_cmp_none(c, attribute_id), LAMBDA c1 :
  IF Halted(c1) \/ c1.rc # "OK" THEN Return(c1, "ERR")
  ELSE Return(copy_from_tile_buffer_partial_contig_dense_var(c1, attribute_id),
              "OK"))

copy_tile_partial_non_contig_dense_var(c, attribute_id) ==
  With(get_tile_from_disk_var_cmp_none(c, attribute_id), LAMBDA c1 :
  IF Halted(c1) \/ c1.rc # "OK" THEN Return(c1, "ERR")
  ELSE Return(copy_from_tile_buffer_partial_non_contig_dense_var(c1, attribute_id),
              "OK"))

\* buffer_size = buffer_offset; buffer_var_size = buffer_var_offset; return OK
ReturnSizeVar(c) ==
  Return([c EXCEPT !.buffer_size = c.buffer_offset,
                   !.buffer_var_size = c.buffer_var_offset], "OK")

RECURSIVE read_dense_attr_var_cmp_none_T(_, _)
read_dense_attr_var_cmp_none_T(c, attribute_id) ==
  With(IF Pending(c, attribute_id)
       THEN copy_from_tile_buffer_dense_var(c, attribute_id) ELSE c, LAMBDA c1 :
  With(IF PastList(c1, attribute_id)
       THEN get_next_overlapping_tile_dense(c1) ELSE c1, LAMBDA c2 :
  LET overlap == CurTile(c2, attribute_id).overlap_
  IN With(CASE overlap = "FULL" -> copy_tile_full_var(c2, attribute_id)
            [] overlap = "PARTIAL_CONTIG" ->
                 copy_tile_partial_contig_dense_var(c2, attribute_id)
            [] OTHER -> copy_tile_partial_non_contig_dense_var(c2, attribute_id), LAMBDA c3 :
  IF Halted(c1) THEN c1
  ELSE IF c1.rs.overflow_[attribute_id] THEN ReturnSizeVar(c1)
  ELSE IF Halted(c2) THEN c2
  ELSE IF ~InList(c2, attribute_id) THEN Halt(c2, "UB")
  ELSE IF overlap = "NONE" THEN ReturnSizeVar(c2)
  ELSE IF Halted(c3) THEN c3
  ELSE IF c3.rc # "OK" THEN Return(c3, "ERR")
  ELSE IF c3.rs.overflow_[attribute_id] THEN ReturnSizeVar(c3)
  ELSE IF NoProgress(c3, c) THEN Halt(c3, "HANG")
  ELSE read_dense_attr_var_cmp_none_T(c3, attribute_id))))

read_dense_attr_var_cmp_none(c, attribute_id) ==
  IF is_empty_attribute(attribute_id)
  THEN Return([c EXCEPT !.buffer_size = 0, !.buffer_var_size = 0], "OK")
  ELSE read_dense_attr_var_cmp_none_T(c, attribute_id)

(***************************************************************************)
(* GZIP-compressed attributes: a tile is read compressed and decompressed  *)
(* into the tile buffer before anything is copied from it.                 *)
(***************************************************************************)
read_tile_from_file_cmp_gzip(c) ==
  LET c1 == [Allocated(c, <<"tile_compressed_", 0>>)
               EXCEPT !.rs.tile_compressed_ = IF @ = NULL THEN Junk ELSE @]
  IN IF IoFails(c, "read") THEN Fail(Io(c1))
     ELSE Return(Io([c1 EXCEPT !.rs.tile_compressed_ = 0]), "OK")

read_tile_from_file_with_mmap_cmp_gzip(c) ==
  LET dropped == [c EXCEPT !.rs.map_addr_compressed_ = NULL,
                           !.rs.tile_compressed_ = NULL]
      held == c.rs.map_addr_compressed_ # NULL
  IN With(Mapped(c, <<"map_addr_compressed_", 0>>, held,
                 MapEvents(c, held, ReleaseAgain), IsMapped(c, held)), LAMBDA c0 :
     IF held /\ IoFails(c, "munmap")
     THEN Fail(Io(c0))
     ELSE IF IoFails(c, "open") \/ IoFails(c, "mmap") \/ IoFails(c, "close")
     THEN Fail(Io([dropped EXCEPT !.maps = c0.maps, !.mem = c0.mem]))
     ELSE Return(Io([c0 EXCEPT !.rs.map_addr_compressed_ = 0,
                               !.rs.tile_compressed_ = 0]), "OK"))

READ_TILE_FROM_FILE_CMP_GZIP(c) ==
  IF c.mmap THEN read_tile_from_file_with_mmap_cmp_gzip(c)
  ELSE read_tile_from_file_cmp_gzip(c)

\* What is done when the size gunzip reports is not the size of the tile:
\* the size is only asserted.
GunzipSizeCheck(c, same) == assert(c, same)

\* READ_TILE_FROM_FILE_CMP_GZIP followed by gunzip into the tile buffer (or
\* the variable tile buffer) of the attribute.  A gunzip that reports
\* another size than the tile's leaves indeterminate bytes in the buffer.
FetchGzip(c, attribute_id, pos, variable) ==
  With(READ_TILE_FROM_FILE_CMP_GZIP(c), LAMBDA c1 :
  LET wrong == IoFails(c1, "size")
      content == IF wrong THEN Junk ELSE pos
      c2 == IF variable
            THEN [Io(c1) EXCEPT !.rs.tiles_var_[attribute_id] = content,
                                !.mismatch = @ \/ wrong]
            ELSE [Io(c1) EXCEPT !.rs.tiles_[attribute_id] = content,
                                !.mismatch = @ \/ wrong]
  IN IF c1.rc # "OK" THEN c1
     ELSE IF IoFails(c1, "gunzip")
     THEN Fail(Io([c1 EXCEPT !.rs.tiles_[attribute_id] =
                                 IF variable THEN @ ELSE Junk]))
     ELSE Return(GunzipSizeCheck(c2, ~wrong), "OK"))

get_tile_from_disk_cmp_gzip(c, attribute_id) ==
  IF ~InList(c, attribute_id) THEN Halt(c, "UB")
  ELSE
    LET overlapping_tile == CurTile(c, attribute_id)
        tile_size_ == overlapping_tile.cell_num_ * cell_size(attribute_id)
    IN With(FetchGzip([Allocated(c, <<"tiles_", attribute_id>>)
                         EXCEPT !.rs.tiles_sizes_[attribute_id] = tile_size_],
                      attribute_id, overlapping_tile.pos_, FALSE), LAMBDA c1 :
    IF attribute_id = attribute_num /\ overlapping_tile.coords_tile_fetched_
    THEN Return(c, "OK")
    ELSE IF Halted(c1) \/ c1.rc # "OK" THEN c1
    ELSE Return(SetFetched(
                  [c1 EXCEPT !.rs.tiles_offsets_[attribute_id] = 0],
                  attribute_id), "OK"))

get_tile_from_disk_var_cmp_gzip(c, attribute_id) ==
  IF ~InList(c, attribute_id) THEN Halt(c, "UB")
  ELSE
    LET overlapping_tile == CurTile(c, attribute_id)
        c0 == assert(c, var_size(attribute_id))
        tile_size_ == overlapping_tile.cell_num_ * TILEDB_CELL_VAR_OFFSET_SIZE
        pos == overlapping_tile.pos_
    IN With(FetchGzip([Allocated(c0, <<"tiles_", attribute_id>>)
                         EXCEPT !.rs.tiles_sizes_[attribute_id] = tile_size_],
                      attribute_id, pos, FALSE), LAMBDA c1 :
    With(FetchGzip([Allocated(c1, <<"tiles_var_", attribute_id>>)
                      EXCEPT !.rs.tiles_offsets_[attribute_id] = 0],
                   attribute_id, pos, TRUE), LAMBDA c2 :
    IF Halted(c0) THEN c0
    ELSE IF Halted(c1) \/ c1.rc # "OK" THEN c1
    ELSE IF Halted(c2) \/ c2.rc # "OK" THEN c2
    ELSE Return([c2 EXCEPT
                   !.rs.tiles_var_sizes_[attribute_id] = TileVarSize(pos),
                   !.rs.tiles_var_offsets_[attribute_id] = 0], "OK")))

RECURSIVE read_dense_attr_cmp_gzip_T(_, _)
read_dense_attr_cmp_gzip_T(c, attribute_id) ==
  With(IF Pending(c, attribute_id)
       THEN copy_from_tile_buffer_dense(c, attribute_id) ELSE c, LAMBDA c1 :
  With(IF PastList(c1, attribute_id)
       THEN get_next_overlapping_tile_dense(c1) ELSE c1, LAMBDA c2 :
  LET overlap == CurTile(c2, attribute_id).overlap_
  IN With(get_tile_from_disk_cmp_gzip(c2, attribute_id), LAMBDA c3 :
  With(CASE overlap = "FULL" -> copy_from_tile_buffer_full(c3, attribute_id)
         [] overlap = "PARTIAL_CONTIG" ->
              copy_from_tile_buffer_partial_contig_dense(c3, attribute_id)
         [] OTHER ->
              copy_from_tile_buffer_partial_non_contig_dense(c3, attribute_id), LAMBDA c4 :
  IF Halted(c1) THEN c1
  ELSE IF c1.rs.overflow_[attribute_id] THEN ReturnSize(c1)
  ELSE IF Halted(c2) THEN c2
  ELSE IF ~InList(c2, attribute_id) THEN Halt(c2, "UB")
  ELSE IF overlap = "NONE" THEN ReturnSize(c2)
  ELSE IF Halted(c3) THEN c3
  ELSE IF c3.rc # "OK" THEN Return(c3, "ERR")
  ELSE IF Halted(c4) THEN c4
  ELSE IF c4.rs.overflow_[attribute_id] THEN ReturnSize(c4)
  ELSE IF NoProgress(c4, c) THEN Halt(c4, "HANG")
  ELSE read_dense_attr_cmp_gzip_T(c4, attribute_id)))))

read_dense_attr_cmp_gzip(c, attribute_id) ==
  IF is_empty_attribute(attribute_id)
  THEN Return([c EXCEPT !.buffer_size = 0], "OK")
  ELSE read_dense_attr_cmp_gzip_T(c, attribute_id)

RECURSIVE read_dense_attr_var_cmp_gzip_T(_, _)
read_dense_attr_var_cmp_gzip_T(c, attribute_id) ==
  With(IF Pending(c, attribute_id)
       THEN copy_from_tile_buffer_dense_var(c, attribute_id) ELSE c, LAMBDA c1 :
  With(IF PastList(c1, attribute_id)
       THEN get_next_overlapping_tile_dense(c1) ELSE c1, LAMBDA c2 :
  LET overlap == CurTile(c2, attribute_id).overlap_
  IN With(get_tile_from_disk_var_cmp_gzip(c2, attribute_id), LAMBDA c3 :
  With(CASE overlap = "FULL" -> copy_from_tile_buffer_full_var(c3, attribute_id)
         [] overlap = "PARTIAL_CONTIG" ->
              copy_from_tile_buffer_partial_contig_dense_var(c3, attribute_id)
         [] OTHER ->
              copy_from_tile_buffer_partial_non_contig_dense_var(c3, attribute_id), LAMBDA c4 :
  IF Halted(c1) THEN c1
  ELSE IF c1.rs.overflow_[attribute_id] THEN ReturnSizeVar(c1)
  ELSE IF Halted(c2) THEN c2
  ELSE IF ~InList(c2, attribute_id) THEN Halt(c2, "UB")
  ELSE IF overlap = "NONE" THEN ReturnSizeVar(c2)
  ELSE IF Halted(c3) THEN c3
  ELSE IF c3.rc # "OK" THEN Return(c3, "ERR")
  ELSE IF Halted(c4) THEN c4
  ELSE IF c4.rs.overflow_[attribute_id] THEN ReturnSizeVar(c4)
  ELSE IF NoProgress(c4, c) THEN Halt(c4, "HANG")
  ELSE read_dense_attr_var_cmp_gzip_T(c4, attribute_id)))))

read_dense_attr_var_cmp_gzip(c, attribute_id) ==
  IF is_empty_attribute(attribute_id)
  THEN Return([c EXCEPT !.buffer_size = 0, !.buffer_var_size = 0], "OK")
  ELSE read_dense_attr_var_cmp_gzip_T(c, attribute_id)

(***************************************************************************)
(* The facade for dense fragments.                                         *)
(***************************************************************************)
read_dense_attr(c, attribute_id) ==
  IF c.buffer_size = 0 THEN Return(SetOverflow(c, attribute_id), "OK")
  ELSE IF array.compression[attribute_id] = "NONE"
  THEN read_dense_attr_cmp_none(c, attribute_id)
  ELSE read_dense_attr_cmp_gzip(c, attribute_id)

read_dense_attr_var(c, attribute_id) ==
  IF c.buffer_size = 0 \/ c.buffer_var_size = 0
  THEN Return([SetOverflow(c, attribute_id) EXCEPT !.buffer_size = 0,
                                                   !.buffer_var_size = 0], "OK")
  ELSE IF array.compression[attribute_id] = "NONE"
  THEN read_dense_attr_var_cmp_none(c, attribute_id)
  ELSE read_dense_attr_var_cmp_gzip(c, attribute_id)

RECURSIVE BufferSizes(_, _)
\* buffer_sizes as the caller lays it out: one size for an attribute of
\* fixed-sized cells, two (offsets, values) for one of variable-sized cells.
BufferSizes(sizes, i) ==
  IF i > Len(sizes) THEN <<>>
  ELSE (IF var_size(array.attribute_ids[i])
        THEN <<sizes[i].fixed, sizes[i].var>> ELSE <<sizes[i].fixed>>)
       \o BufferSizes(sizes, i + 1)

\* The caller buffers of the i-th attribute of the list, as a call finds
\* them: empty, with the sizes the caller gives.  pre keeps the ReadState
\* as it is when the attribute is taken up.
WithBuffers(c, i) ==
  LET buffer_sizes == BufferSizes(c.sizes, 1)
  IN [c EXCEPT !.pre = c.rs, !.buffer = <<>>, !.buffer_offset = 0,
               !.buffer_size = buffer_sizes[c.buffer_i + 1],
               !.buffer_var = <<>>, !.buffer_var_offset = 0,
               !.buffer_var_size = IF var_size(array.attribute_ids[i])
                                   THEN buffer_sizes[c.buffer_i + 2] ELSE 0]

\* A loop that moves on by one buffer after every attribute.
NextBufferByOne(c, attribute_id) == [c EXCEPT !.buffer_i = @ + 1]

\* ++buffer_i, or buffer_i += 2 after an attribute of variable-sized cells.
NextBuffer(c, attribute_id) ==
  [c EXCEPT !.buffer_i = @ + IF var_size(attribute_id) THEN 2 ELSE 1]

\* What the call leaves for the i-th attribute of the list: the content of
\* its buffers, the sizes written back and the running offsets reached.
Output(c, attribute_id) ==
  [attribute_id |-> attribute_id, rc |-> c.rc,
   buffer |-> c.buffer, buffer_size |-> c.buffer_size,
   buffer_offset |-> c.buffer_offset,
   buffer_var |-> c.buffer_var, buffer_var_size |-> c.buffer_var_size,
   buffer_var_offset |-> c.buffer_var_offset,
   overflow |-> c.rs.overflow_[attribute_id],
   slots |-> IF var_size(attribute_id) THEN <<c.buffer_i, c.buffer_i + 1>>
             ELSE <<c.buffer_i>>]

RECURSIVE read_dense_from(_, _)
\* The loop of read_dense over attribute_ids, from its i-th element on.
read_dense_from(c, i) ==
  IF i > Len(array.attribute_ids) THEN c
  ELSE LET attribute_id == array.attribute_ids[i]
       IN With(IF ~var_size(attribute_id)
               THEN read_dense_attr(WithBuffers(c, i), attribute_id)
               ELSE read_dense_attr_var(WithBuffers(c, i), attribute_id), LAMBDA c1 :
       With([c1 EXCEPT !.out = Append(@, Output(c1, attribute_id))], LAMBDA c2 :
       IF Halted(c1) THEN c1
       ELSE IF c1.rc # "OK" THEN c2
       ELSE read_dense_from(NextBuffer(c2, attribute_id), i + 1)))

read_dense(c) == read_dense_from(c, 1)

(***************************************************************************)
(* The sparse fragment: ten cells in row-major order, in tiles of at most  *)
(* capacity cells; row 1 holds no cell, so that a range can overlap the    *)
(* MBR of a tile and none of its cells.                                    *)
(***************************************************************************)
Coords ==
  << <<0, 0>>, <<0, 1>>, <<0, 3>>, <<2, 1>>,
     <<2, 2>>, <<2, 3>>, <<3, 0>>, <<3, 1>>,
     <<3, 2>>, <<3, 3>> >>

\* ArraySchema::hilbert_id on the 4 x 4 domain: the position of the cell on
\* the Hilbert curve.
hilbert_id(coords) ==
  << <<0, 3, 4, 5>>, <<1, 2, 7, 6>>, <<14, 13, 8, 9>>, <<15, 12, 11, 10>> >>
    [coords[1] + 1][coords[2] + 1]

\* Ten cells as a fragment of an array whose cell order is column-major.
ColCoords ==
  << <<0, 0>>, <<2, 0>>, <<3, 0>>, <<0, 1>>,
     <<3, 1>>, <<0, 2>>, <<2, 2>>, <<3, 2>>,
     <<0, 3>>, <<3, 3>> >>

\* The same ten cells as a fragment of an array whose cell order is Hilbert.
HilbertCoords ==
  << <<0, 0>>, <<0, 1>>, <<0, 3>>, <<2, 2>>,
     <<2, 3>>, <<3, 3>>, <<3, 2>>, <<3, 1>>,
     <<2, 1>>, <<3, 0>> >>

\* BookKeeping::last_tile_cell_num()
last_tile_cell_num == CellNum - (tile_num - 1) * capacity

\* Number of cells of the tile at position pos.
TileCellNum(pos) == IF pos = tile_num - 1 THEN last_tile_cell_num ELSE capacity

\* The coordinates of the cells of the tile at position pos.
TileCoords(pos) ==
  [i \in 1..TileCellNum(pos) |->
     IF array.cell_order = "HILBERT" THEN HilbertCoords[pos * capacity + i]
     ELSE IF array.cell_order = "COL_MAJOR" THEN ColCoords[pos * capacity + i]
     ELSE Coords[pos * capacity + i]]

\* BookKeeping::mbrs()[pos]
mbrs(pos) ==
  With(TileCoords(pos), LAMBDA t :
  LET lo(d) == SetMin({t[i][d] : i \in DOMAIN t})
      hi(d) == 0 - SetMin({0 - t[i][d] : i \in DOMAIN t})
  IN <<lo(1), hi(1), lo(2), hi(2)>>)

\* BookKeeping::bounding_coords()[pos]: the first and the last cell.
bounding_coords(pos) ==
  <<TileCoords(pos)[1], TileCoords(pos)[TileCellNum(pos)]>>

cmp_row_order(a, b) ==
  IF a[1] < b[1] THEN 0 - 1
  ELSE IF a[1] > b[1] THEN 1
  ELSE IF a[2] < b[2] THEN 0 - 1
  ELSE IF a[2] > b[2] THEN 1
  ELSE 0

cmp_col_order(a, b) ==
  IF a[2] < b[2] THEN 0 - 1
  ELSE IF a[2] > b[2] THEN 1
  ELSE IF a[1] < b[1] THEN 0 - 1
  ELSE IF a[1] > b[1] THEN 1
  ELSE 0

\* The comparison of the searches of a row-major or column-major array: the
\* _row and _col functions differ in it alone.
cmp_order(a, b) ==
  IF array.cell_order = "COL_MAJOR" THEN cmp_col_order(a, b) ELSE cmp_row_order(a, b)

is_unary_range(range) == \A d \in 1..dim_num : range[2 * d - 1] = range[2 * d]

cell_in_range(cell, range) ==
  \A d \in 1..dim_num : cell[d] >= range[2 * d - 1] /\ cell[d] <= range[2 * d]

\* Overlap of the query range with an MBR: the overlap range in absolute
\* coordinates and its kind, classified as for the tiles of a dense array.
compute_mbr_range_overlap(range, mbr) ==
  LET overlap_range ==
        [i \in 1..(2 * dim_num) |->
           IF i % 2 = 1 THEN Max(mbr[i], range[i]) ELSE Min(mbr[i], range[i])]
      none == \E d \in 1..dim_num :
                \/ overlap_range[2 * d - 1] > mbr[2 * d]
                \/ overlap_range[2 * d] < mbr[2 * d - 1]
      same(d) == /\ overlap_range[2 * d - 1] = mbr[2 * d - 1]
                 /\ overlap_range[2 * d] = mbr[2 * d]
      overlap == IF none THEN 0
                 ELSE IF \A d \in 1..dim_num : same(d) THEN 1
                 ELSE IF array.cell_order = "HILBERT" THEN 2
                 ELSE IF array.cell_order = "COL_MAJOR"
                 THEN IF \A d \in 1..(dim_num - 1) : same(d) THEN 3 ELSE 2
                 ELSE IF \A d \in 2..dim_num : same(d) THEN 3
                 ELSE 2
  IN [overlap_range |-> overlap_range, overlap |-> overlap]

RECURSIVE OrderSearch(_, _, _, _)
\* The binary search the row-major and column-major searches share: items[med + 1] is the
\* pair of coordinates <<first, last>> the key is compared with (the two
\* bounding coordinates of a tile, or twice the coordinates of a cell).
\* ub: the search read an indeterminate item (<<>>).
OrderSearch(items, key, min, max) ==
  IF min > max THEN [min |-> min, max |-> max, med |-> Junk, ub |-> FALSE]
  ELSE LET med == min + ((max - min) \div 2)
       IN IF med + 1 \notin DOMAIN items \/ items[med + 1] = <<>>
          THEN [min |-> min, max |-> max, med |-> med, ub |-> TRUE]
          ELSE IF cmp_order(key, items[med + 1][1]) < 0
          THEN OrderSearch(items, key, min, med - 1)
          ELSE IF cmp_order(key, items[med + 1][2]) > 0
          THEN OrderSearch(items, key, med + 1, max)
          ELSE [min |-> min, max |-> max, med |-> med, ub |-> FALSE]

\* init_tile_search_range_row with the minimum of the second search taken
\* for last when that search ends between two tiles.
init_tile_search_range_row_min(r) ==
  LET range == array.range
  IN With([i \in 1..tile_num |-> bounding_coords(i - 1)], LAMBDA items :
  With(OrderSearch(items, <<range[1], range[3]>>, 0, tile_num - 1), LAMBDA s1 :
  LET first == IF s1.max < s1.min THEN s1.min ELSE s1.med
  IN With(OrderSearch(items, <<range[2], range[4]>>, 0, tile_num - 1), LAMBDA s2 :
  LET last == IF is_unary_range(range) THEN first
              ELSE IF s2.max < s2.min THEN s2.min ELSE s2.med
  IN [r EXCEPT !.tile_search_range_ = <<first, last>>])))

\* init_tile_search_range_row and init_tile_search_range_col, which differ
\* in the comparison only.
init_tile_search_range_row(r) ==
  LET range == array.range
  IN With([i \in 1..tile_num |-> bounding_coords(i - 1)], LAMBDA items :
  With(OrderSearch(items, <<range[1], range[3]>>, 0, tile_num - 1), LAMBDA s1 :
  LET first == IF s1.max < s1.min THEN s1.min ELSE s1.med
  IN With(OrderSearch(items, <<range[2], range[4]>>, 0, tile_num - 1), LAMBDA s2 :
  LET last == IF is_unary_range(range) THEN first
              ELSE IF s2.max < s2.min THEN s2.max ELSE s2.med
  IN [r EXCEPT !.tile_search_range_ = <<first, last>>])))

\* cmp_row_order of two cells with their Hilbert ids: the ids first, the
\* row-major order for equal ids.
cmp_row_order_id(id_a, a, id_b, b) ==
  IF id_a < id_b THEN 0 - 1
  ELSE IF id_a > id_b THEN 1
  ELSE cmp_row_order(a, b)

RECURSIVE HilbertSearch(_, _, _, _)
\* The binary search of the Hilbert searches, as OrderSearch.
HilbertSearch(items, key, min, max) ==
  IF min > max THEN [min |-> min, max |-> max, med |-> Junk, ub |-> FALSE]
  ELSE LET med == min + ((max - min) \div 2)
       IN IF med + 1 \notin DOMAIN items \/ items[med + 1] = <<>>
          THEN [min |-> min, max |-> max, med |-> med, ub |-> TRUE]
          ELSE IF cmp_row_order_id(hilbert_id(key), key,
                                   hilbert_id(items[med + 1][1]), items[med + 1][1]) < 0
          THEN HilbertSearch(items, key, min, med - 1)
          ELSE IF cmp_row_order_id(hilbert_id(key), key,
                                   hilbert_id(items[med + 1][2]), items[med + 1][2]) > 0
          THEN HilbertSearch(items, key, med + 1, max)
          ELSE [min |-> min, max |-> max, med |-> med, ub |-> FALSE]

init_tile_search_range_hil(r) ==
  LET range == array.range
  IN IF is_unary_range(range)
     THEN With([i \in 1..tile_num |-> bounding_coords(i - 1)], LAMBDA items :
          With(HilbertSearch(items, <<range[1], range[3]>>, 0, tile_num - 1), LAMBDA s :
          LET first == IF s.max < s.min THEN s.min ELSE s.med
          IN [r EXCEPT !.tile_search_range_ = <<first, first>>]))
     ELSE [r EXCEPT !.tile_search_range_ = <<0, tile_num - 1>>]

init_tile_search_range(r) ==
  With(IF array.cell_order = "HILBERT" THEN init_tile_search_range_hil(r)
       ELSE init_tile_search_range_row(r), LAMBDA r1 :
  IF r1.tile_search_range_[2] < r1.tile_search_range_[1]
  THEN [r1 EXCEPT !.overlapping_tiles_ = Append(@, SentinelTile)]
  ELSE r1)

(***************************************************************************)
(* The cell-range resolver.  It reads the coordinates tile held for the    *)
(* coordinates attribute and writes the intervals of the last entry of     *)
(* the overlapping tile list.                                              *)
(***************************************************************************)
\* The last entry of the list: overlapping_tiles_.back()
Back(c) == c.rs.overlapping_tiles_[Len(c.rs.overlapping_tiles_)]

\* The first cell_num cells of tiles_[attribute_num], as search items.
CoordsItems(c, cell_num) ==
  LET t == c.rs.tiles_[attribute_num]
      valid == c.rs.tiles_sizes_[attribute_num] \div coords_size
  IN [i \in 1..cell_num |->
        IF t < 0 \/ i > valid \/ i > TileCellNum(t) THEN <<>>
        ELSE <<TileCoords(t)[i], TileCoords(t)[i]>>]

\* cell_pos_ranges_.push_back of the last entry of the list.
PushRange(c, first, last) ==
  [c EXCEPT !.rs.overlapping_tiles_[Len(c.rs.overlapping_tiles_)].cell_pos_ranges_
              = Append(@, <<first, last>>)]

\* compute_cell_pos_ranges_contig_row recording the interval it finds twice.
compute_cell_pos_ranges_contig_row_twice(c) ==
  LET overlapping_tile == Back(c)
      range == overlapping_tile.overlap_range_
  IN With(CoordsItems(c, overlapping_tile.cell_num_), LAMBDA items :
  With(OrderSearch(items, <<range[1], range[3]>>, 0,
                   overlapping_tile.cell_num_ - 1), LAMBDA s1 :
  LET start_cell_pos == IF s1.max < s1.min THEN s1.min ELSE s1.med
  IN With(OrderSearch(items, <<range[2], range[4]>>, 0,
                      overlapping_tile.cell_num_ - 1), LAMBDA s2 :
  LET end_cell_pos == IF s2.max < s2.min THEN s2.max ELSE s2.med
  IN IF s1.ub \/ s2.ub THEN Halt(c, "UB")
     ELSE IF start_cell_pos <= end_cell_pos
     THEN PushRange(PushRange(c, start_cell_pos, end_cell_pos),
                    start_cell_pos, end_cell_pos)
     ELSE c)))

compute_cell_pos_ranges_contig_row(c) ==
  LET overlapping_tile == Back(c)
      range == overlapping_tile.overlap_range_
  IN With(CoordsItems(c, overlapping_tile.cell_num_), LAMBDA items :
  With(OrderSearch(items, <<range[1], range[3]>>, 0,
                   overlapping_tile.cell_num_ - 1), LAMBDA s1 :
  LET start_cell_pos == IF s1.max < s1.min THEN s1.min ELSE s1.med
  IN With(OrderSearch(items, <<range[2], range[4]>>, 0,
                      overlapping_tile.cell_num_ - 1), LAMBDA s2 :
  LET end_cell_pos == IF s2.max < s2.min THEN s2.max ELSE s2.med
  IN IF s1.ub \/ s2.ub THEN Halt(c, "UB")
     ELSE IF start_cell_pos <= end_cell_pos
     THEN PushRange(c, start_cell_pos, end_cell_pos)
     ELSE c)))

compute_cell_pos_ranges_contig(c) ==
  IF array.cell_order \in {"ROW_MAJOR", "COL_MAJOR"}
  THEN compute_cell_pos_ranges_contig_row(c)
  ELSE c

RECURSIVE compute_cell_pos_ranges_scan_from(_, _, _, _, _, _)
\* The loop of compute_cell_pos_ranges_scan from cell i on; no active range
\* is current_end_pos = -2.
compute_cell_pos_ranges_scan_from(c, items, i, end_pos, current_start_pos, current_end_pos) ==
  IF Halted(c) THEN c
  ELSE IF i > end_pos
  THEN IF current_end_pos # 0 - 2
       THEN PushRange(c, current_start_pos, current_end_pos) ELSE c
  ELSE IF i + 1 \notin DOMAIN items \/ items[i + 1] = <<>> THEN Halt(c, "UB")
  ELSE IF cell_in_range(items[i + 1][1], array.range)
  THEN IF i - 1 = current_end_pos
       THEN compute_cell_pos_ranges_scan_from(c, items, i + 1, end_pos,
              current_start_pos, current_end_pos + 1)
       ELSE compute_cell_pos_ranges_scan_from(c, items, i + 1, end_pos, i, i)
  ELSE IF i - 1 = current_end_pos
       THEN compute_cell_pos_ranges_scan_from(
              PushRange(c, current_start_pos, current_end_pos),
              items, i + 1, end_pos, current_start_pos, 0 - 2)
       ELSE compute_cell_pos_ranges_scan_from(c, items, i + 1, end_pos,
              current_start_pos, current_end_pos)

compute_cell_pos_ranges_scan(c, start_pos, end_pos) ==
  compute_cell_pos_ranges_scan_from(c, CoordsItems(c, capacity), start_pos,
                                    end_pos, Junk, 0 - 2)

compute_cell_pos_ranges_non_contig(c) ==
  IF array.cell_order = "HILBERT"
  THEN compute_cell_pos_ranges_scan(c, 0, capacity - 1)
  ELSE
  With(compute_cell_pos_ranges_contig(c), LAMBDA c1 :
  LET found == Back(c1).cell_pos_ranges_
      cleared ==
        [c1 EXCEPT !.rs.overlapping_tiles_[Len(c.rs.overlapping_tiles_)]
                      .cell_pos_ranges_ = <<>>]
  IN IF Halted(c1) \/ Len(found) = 0 THEN c1
     ELSE compute_cell_pos_ranges_scan(cleared, found[1][1], found[1][2]))

compute_cell_pos_ranges_unary_hil(c) ==
  LET overlapping_tile == Back(c)
      range == overlapping_tile.overlap_range_
      items == CoordsItems(c, overlapping_tile.cell_num_)
  IN With(HilbertSearch(items, <<range[1], range[3]>>, 0,
                        overlapping_tile.cell_num_ - 1), LAMBDA s :
  IF s.ub THEN Halt(c, "UB")
  ELSE IF s.max >= s.min THEN PushRange(c, s.med, s.med)
  ELSE c)

compute_cell_pos_ranges_unary_row(c) ==
  LET overlapping_tile == Back(c)
      range == overlapping_tile.overlap_range_
      items == CoordsItems(c, overlapping_tile.cell_num_)
  IN With(OrderSearch(items, <<range[1], range[3]>>, 0,
                      overlapping_tile.cell_num_ - 1), LAMBDA s :
  IF s.ub THEN Halt(c, "UB")
  ELSE IF s.max >= s.min THEN PushRange(c, s.med, s.med)
  ELSE c)

compute_cell_pos_ranges_unary(c) ==
  IF array.cell_order = "HILBERT" THEN compute_cell_pos_ranges_unary_hil(c)
  ELSE compute_cell_pos_ranges_unary_row(c)

\* What compute_cell_pos_ranges makes of the result of the fetch of the
\* coordinates tile: it goes on whatever the result is.
CoordsFetchResult(c) == Return(c, "OK")

\* The coordinates tile is read as the tile of an uncompressed file: of a
\* compressed file the bytes read are not the coordinates.
ReadAsUncompressed(c) ==
  IF array.compression[attribute_num] = "GZIP" /\ c.rs.tiles_[attribute_num] >= 0
  THEN [c EXCEPT !.rs.tiles_[attribute_num] = Junk]
  ELSE c

\* The call keeps what every run of the resolver searched and found
\* (resolves): the tile of the entry, the tile whose coordinates were in
\* tiles_[attribute_num], the kind of overlap, the intervals written, and
\* whether the run ended in undefined behaviour.
Resolved(c, d) ==
  [d EXCEPT !.resolves =
     Append(@, [entry |-> Back(c).pos_,
                searched |-> c.rs.tiles_[attribute_num],
                overlap |-> Back(c).overlap_,
                found |-> IF Halted(d) THEN <<>> ELSE Back(d).cell_pos_ranges_,
                halt |-> d.halt])]

\* The bytes of a compressed file that were mapped as a coordinates tile
\* are determinate, but they are not coordinates: what the searches of the
\* resolver find in them is not known.  The environment of the call chooses
\* it (fault.kind = "search"): no cell, or every cell of the tile.
SearchesMappedBytes(c, c0, fetched) ==
  /\ c.fault.kind = "search"
  /\ c.mmap /\ array.compression[attribute_num] = "GZIP"
  /\ ~fetched /\ ~Halted(c0) /\ c0.rc = "OK"

FoundInMappedBytes(c) ==
  IF c.fault.at = 1 THEN PushRange(c, 0, Back(c).cell_num_ - 1) ELSE c

compute_cell_pos_ranges(c) ==
  LET fetched == InList(c, attribute_num) /\
                 CurTile(c, attribute_num).coords_tile_fetched_
  IN With(get_tile_from_disk_cmp_none(c, attribute_num), LAMBDA c0 :
  With(CoordsFetchResult(IF fetched THEN c0 ELSE ReadAsUncompressed(c0)), LAMBDA c1 :
  IF Halted(c1) \/ c1.rc # "OK" THEN c1
  ELSE IF SearchesMappedBytes(c, c0, fetched)
  THEN Resolved(c1, FoundInMappedBytes(c1))
  ELSE Resolved(
         c1,
         IF is_unary_range(array.range) THEN compute_cell_pos_ranges_unary(c1)
         ELSE IF Back(c1).overlap_ = "PARTIAL_CONTIG"
         THEN compute_cell_pos_ranges_contig(c1)
         ELSE IF Back(c1).overlap_ = "PARTIAL_NON_CONTIG"
         THEN compute_cell_pos_ranges_non_contig(c1)
         ELSE c1)))

(***************************************************************************)
(* The overlap iterator of sparse fragments.                               *)
(***************************************************************************)
RECURSIVE MbrWalk(_, _, _)
\* The while loop of get_next_overlapping_tile_sparse: the entry as the
\* loop leaves it, having started at tile_pos.
MbrWalk(c, overlapping_tile, tile_pos) ==
  IF overlapping_tile.overlap_ # "NONE" \/ tile_pos > c.rs.tile_search_range_[2]
  THEN overlapping_tile
  ELSE With(compute_mbr_range_overlap(array.range, mbrs(tile_pos)), LAMBDA ov :
       MbrWalk(c, [overlapping_tile EXCEPT
                     !.pos_ = tile_pos,
                     !.overlap_range_ = ov.overlap_range,
                     !.overlap_ = OverlapKind(ov.overlap)],
               tile_pos + 1))

get_next_overlapping_tile_sparse(c) ==
  LET list == c.rs.overlapping_tiles_
      tile_pos == IF Len(list) = 0 THEN c.rs.tile_search_range_[1]
                  ELSE list[Len(list)].pos_ + 1
      start == [pos_ |-> Junk, overlap_ |-> "NONE", coords_ |-> <<>>,
                overlap_range_ |-> <<>>, cell_num_ |-> Junk,
                cell_pos_ranges_ |-> <<>>, coords_tile_fetched_ |-> FALSE]
  IN With(IF /\ c.rs.tile_search_range_[1] >= 0
             /\ c.rs.tile_search_range_[1] < tile_num
          THEN MbrWalk(c, start, tile_pos)
          ELSE start, LAMBDA walked :
  LET overlapping_tile ==
        [walked EXCEPT !.cell_num_ = IF walked.pos_ = Junk THEN Junk
                                     ELSE IF walked.pos_ # tile_num - 1
                                     THEN capacity
                                     ELSE last_tile_cell_num]
      c1 == [c EXCEPT !.rs.overlapping_tiles_ = Append(@, overlapping_tile),
                      !.mem.entries = @ + EntryBlocks(overlapping_tile)]
  IN With(IF overlapping_tile.overlap_ \in {"PARTIAL_CONTIG", "PARTIAL_NON_CONTIG"}
          THEN compute_cell_pos_ranges(c1) ELSE c1, LAMBDA c2 :
  IF Len(list) > 0 /\ list[Len(list)].pos_ = Junk THEN Halt(c, "UB")
  ELSE IF Halted(c2) THEN c2
  ELSE clean_up_processed_overlapping_tiles(c2)))

(***************************************************************************)
(* The copy engine: fixed-sized cells, sparse fragments.                   *)
(***************************************************************************)
copy_from_tile_buffer_partial_contig_sparse(c, attribute_id) ==
  LET buffer_free_space == SizeSub(c.buffer_size, c.buffer_offset)
      overlapping_tile == CurTile(c, attribute_id)
      cell_size_ == cell_size(attribute_id)
      c0 == assert(c, Len(overlapping_tile.cell_pos_ranges_) <= 1)
      start_offset == overlapping_tile.cell_pos_ranges_[1][1] * cell_size_
      end_offset == (overlapping_tile.cell_pos_ranges_[1][2] + 1) * cell_size_ - 1
      c1 == IF c0.rs.tiles_offsets_[attribute_id] < start_offset
            THEN [c0 EXCEPT !.rs.tiles_offsets_[attribute_id] = start_offset]
            ELSE c0
      bytes_left_to_copy ==
        SizeSub(end_offset + 1, c1.rs.tiles_offsets_[attribute_id])
      bytes_to_copy == Min(bytes_left_to_copy, buffer_free_space)
  IN With(CopyFromTile(c1, attribute_id, bytes_to_copy), LAMBDA c2 :
  IF buffer_free_space = 0 THEN SetOverflow(c, attribute_id)
  ELSE IF Halted(c0) \/ Len(overlapping_tile.cell_pos_ranges_) = 0 THEN c0
  ELSE IF Halted(c2) THEN c2
  ELSE IF c2.rs.tiles_offsets_[attribute_id] = end_offset + 1
  THEN NextPos([c2 EXCEPT !.rs.tiles_offsets_[attribute_id] =
                            c2.rs.tiles_sizes_[attribute_id]], attribute_id)
  ELSE SetOverflow(assert(c2, c2.buffer_offset = c2.buffer_size), attribute_id))

\* What the loop over the intervals does once an interval did not fit:
\* it goes on with the next interval.
AfterOverflow(c, i) == i + 1

RECURSIVE CopyRanges(_, _, _)
\* The loop of copy_from_tile_buffer_partial_non_contig_sparse over the
\* intervals of the tile, from interval i (0-based) on.
CopyRanges(c, attribute_id, i) ==
  LET ranges == CurTile(c, attribute_id).cell_pos_ranges_
      cell_size_ == cell_size(attribute_id)
      start_offset == ranges[i + 1][1] * cell_size_
      end_offset == (ranges[i + 1][2] + 1) * cell_size_ - 1
      c1 == IF c.rs.tiles_offsets_[attribute_id] < start_offset
            THEN [c EXCEPT !.rs.tiles_offsets_[attribute_id] = start_offset]
            ELSE c
      bytes_left_to_copy ==
        SizeSub(end_offset + 1, c1.rs.tiles_offsets_[attribute_id])
      bytes_to_copy ==
        Min(bytes_left_to_copy, SizeSub(c.buffer_size, c.buffer_offset))
  IN With(IF bytes_to_copy # 0 THEN CopyFromTile(c1, attribute_id, bytes_to_copy)
          ELSE c1, LAMBDA c2 :
  LET done == [NextPos([c2 EXCEPT !.rs.tiles_offsets_[attribute_id] =
                                    c2.rs.tiles_sizes_[attribute_id]], attribute_id)
                 EXCEPT !.rs.cell_pos_range_pos_[attribute_id] = 0]
      over == [SetOverflow(assert(c2, c2.buffer_offset = c2.buffer_size),
                           attribute_id)
                 EXCEPT !.rs.cell_pos_range_pos_[attribute_id] = i]
  IN IF Halted(c) \/ ~InList(c, attribute_id) THEN c
     ELSE IF i >= Len(ranges) THEN c
     ELSE IF i < 0 THEN Halt(c, "UB")
     ELSE IF Halted(c2) THEN c2
     ELSE IF i = Len(ranges) - 1 /\
             c2.rs.tiles_offsets_[attribute_id] = end_offset + 1
     THEN done
     ELSE IF c2.rs.tiles_offsets_[attribute_id] # end_offset + 1
     THEN CopyRanges(over, attribute_id, AfterOverflow(over, i))
     ELSE CopyRanges(c2, attribute_id, i + 1))

copy_from_tile_buffer_partial_non_contig_sparse(c, attribute_id) ==
  LET buffer_free_space == SizeSub(c.buffer_size, c.buffer_offset)
      overlapping_tile == CurTile(c, attribute_id)
      c0 == assert(c, ~var_size(attribute_id))
  IN IF buffer_free_space = 0 THEN SetOverflow(c, attribute_id)
     ELSE IF Halted(c0) THEN c0
     ELSE IF Len(overlapping_tile.cell_pos_ranges_) = 0
     THEN NextPos([c0 EXCEPT !.rs.tiles_offsets_[attribute_id] =
                               c0.rs.tiles_sizes_[attribute_id]], attribute_id)
     ELSE CopyRanges(c0, attribute_id, c0.rs.cell_pos_range_pos_[attribute_id])

copy_from_tile_buffer_sparse(c, attribute_id) ==
  IF ~InList(c, attribute_id) THEN Halt(c, "UB")
  ELSE LET overlap == CurTile(c, attribute_id).overlap_
       IN CASE overlap = "FULL" -> copy_from_tile_buffer_full(c, attribute_id)
            [] overlap = "PARTIAL_NON_CONTIG" ->
                 copy_from_tile_buffer_partial_non_contig_sparse(c, attribute_id)
            [] overlap = "PARTIAL_CONTIG" ->
                 copy_from_tile_buffer_partial_contig_sparse(c, attribute_id)
            [] OTHER -> c

(***************************************************************************)
(* The copy engine: variable-sized cells, sparse fragments.                *)
(***************************************************************************)
copy_from_tile_buffer_partial_contig_sparse_var(c, attribute_id) ==
  LET buffer_free_space == SizeSub(c.buffer_size, c.buffer_offset)
      buffer_var_free_space == SizeSub(c.buffer_var_size, c.buffer_var_offset)
      overlapping_tile == CurTile(c, attribute_id)
      c0 == assert(assert(c, Len(overlapping_tile.cell_pos_ranges_) <= 1),
                   var_size(attribute_id))
      start_cell_pos == overlapping_tile.cell_pos_ranges_[1][1]
      end_cell_pos == overlapping_tile.cell_pos_ranges_[1][2]
      start_offset == start_cell_pos * TILEDB_CELL_VAR_OFFSET_SIZE
      end_offset == (end_cell_pos + 1) * TILEDB_CELL_VAR_OFFSET_SIZE - 1
  IN With(compute_bytes_to_copy(c, attribute_id, start_cell_pos, end_cell_pos,
                                buffer_free_space, buffer_var_free_space), LAMBDA b :
  With(IF c0.rs.tiles_offsets_[attribute_id] = 0
       THEN SetVarOffset(
              [c0 EXCEPT !.rs.tiles_offsets_[attribute_id] = start_offset],
              attribute_id, start_cell_pos)
       ELSE c0, LAMBDA c1 :
  \* the offsets are shifted from buffer + buffer_offset, after
  \* buffer_offset has been advanced
  With(CopyVarStep(c1, attribute_id, b.bytes_to_copy, b.bytes_var_to_copy,
                   c1.buffer_offset + b.bytes_to_copy,
                   end_cell_pos - start_cell_pos + 1), LAMBDA c2 :
  IF buffer_free_space = 0 \/ buffer_var_free_space = 0
  THEN SetOverflow(c, attribute_id)
  ELSE IF Halted(c0) \/ Len(overlapping_tile.cell_pos_ranges_) = 0 THEN c0
  ELSE IF b.ub THEN Halt(c0, "UB")
  ELSE IF b.bytes_to_copy = 0 THEN SetOverflow(c0, attribute_id)
  ELSE IF Halted(c1) THEN c1
  ELSE IF Halted(c2) THEN c2
  ELSE IF c2.rs.tiles_offsets_[attribute_id] = end_offset + 1
  THEN NextPos([c2 EXCEPT
                  !.rs.tiles_offsets_[attribute_id] =
                     c2.rs.tiles_sizes_[attribute_id],
                  !.rs.tiles_var_offsets_[attribute_id] =
                     c2.rs.tiles_var_sizes_[attribute_id]], attribute_id)
  ELSE SetOverflow(c2, attribute_id))))

RECURSIVE CopyRangesVar(_, _, _)
\* The loop of copy_from_tile_buffer_partial_non_contig_sparse_var over the
\* intervals of the tile, from interval i (0-based) on.
CopyRangesVar(c, attribute_id, i) ==
  LET ranges == CurTile(c, attribute_id).cell_pos_ranges_
      start_offset == ranges[i + 1][1] * TILEDB_CELL_VAR_OFFSET_SIZE
      end_offset == (ranges[i + 1][2] + 1) * TILEDB_CELL_VAR_OFFSET_SIZE - 1
      c1 == IF c.rs.tiles_offsets_[attribute_id] < start_offset
            THEN [c EXCEPT !.rs.tiles_offsets_[attribute_id] = start_offset]
            ELSE c
      start_cell_pos ==
        c1.rs.tiles_offsets_[attribute_id] \div TILEDB_CELL_VAR_OFFSET_SIZE
      end_cell_pos == ranges[i + 1][2]
  IN With(compute_bytes_to_copy(c1, attribute_id, start_cell_pos, end_cell_pos,
            SizeSub(c.buffer_size, c.buffer_offset),
            SizeSub(c.buffer_var_size, c.buffer_var_offset)), LAMBDA b :
  LET first == TileOff(c1, attribute_id, start_cell_pos)
      c2 == IF c1.rs.tiles_var_offsets_[attribute_id] < first
            THEN [c1 EXCEPT !.rs.tiles_var_offsets_[attribute_id] = first]
            ELSE c1
  IN With(IF b.bytes_to_copy # 0
          THEN CopyVarStep(c2, attribute_id, b.bytes_to_copy, b.bytes_var_to_copy,
                           c2.buffer_offset, end_cell_pos - start_cell_pos + 1)
          ELSE c2, LAMBDA c3 :
  LET done == [NextPos([c3 EXCEPT !.rs.tiles_offsets_[attribute_id] =
                                    c3.rs.tiles_sizes_[attribute_id]], attribute_id)
                 EXCEPT !.rs.cell_pos_range_pos_[attribute_id] = 0]
      over == [SetOverflow(assert(c3, c3.buffer_offset = c3.buffer_size),
                           attribute_id)
                 EXCEPT !.rs.cell_pos_range_pos_[attribute_id] = i]
  IN IF Halted(c) \/ ~InList(c, attribute_id) THEN c
     ELSE IF i >= Len(ranges) THEN c
     ELSE IF i < 0 \/ b.ub \/ first = Junk THEN Halt(c, "UB")
     ELSE IF Halted(c3) THEN c3
     ELSE IF i = Len(ranges) - 1 /\
             c3.rs.tiles_offsets_[attribute_id] = end_offset + 1
     THEN done
     ELSE IF c3.rs.tiles_offsets_[attribute_id] # end_offset + 1
     THEN CopyRangesVar(over, attribute_id, AfterOverflow(over, i))
     ELSE CopyRangesVar(c3, attribute_id, i + 1)))

copy_from_tile_buffer_partial_non_contig_sparse_var(c, attribute_id) ==
  LET buffer_free_space == SizeSub(c.buffer_size, c.buffer_offset)
      buffer_var_free_space == SizeSub(c.buffer_var_size, c.buffer_var_offset)
      overlapping_tile == CurTile(c, attribute_id)
      c0 == assert(c, var_size(attribute_id))
  IN IF buffer_free_space = 0 \/ buffer_var_free_space = 0
     THEN SetOverflow(c, attribute_id)
     ELSE IF Halted(c0) THEN c0
     ELSE IF Len(overlapping_tile.cell_pos_ranges_) = 0
     THEN NextPos([c0 EXCEPT
                     !.rs.tiles_offsets_[attribute_id] =
                        c0.rs.tiles_sizes_[attribute_id],
                     !.rs.tiles_var_offsets_[attribute_id] =
                        c0.rs.tiles_var_sizes_[attribute_id]], attribute_id)
     ELSE CopyRangesVar(c0, attribute_id, c0.rs.cell_pos_range_pos_[attribute_id])

copy_from_tile_buffer_sparse_var(c, attribute_id) ==
  IF ~InList(c, attribute_id) THEN Halt(c, "UB")
  ELSE LET overlap == CurTile(c, attribute_id).overlap_
       IN CASE overlap = "FULL" -> copy_from_tile_buffer_full_var(c, attribute_id)
            [] overlap = "PARTIAL_NON_CONTIG" ->
                 copy_from_tile_buffer_partial_non_contig_sparse_var(c, attribute_id)
            [] overlap = "PARTIAL_CONTIG" ->
                 copy_from_tile_buffer_partial_contig_sparse_var(c, attribute_id)
            [] OTHER -> c

(***************************************************************************)
(* Copy of the next tile and the read loops: sparse fragments.  In the     *)
(* loops of variable attributes the exit at the end of the tiles writes    *)
(* back buffer_size only.                                                  *)
(***************************************************************************)
copy_tile_partial_contig_direct_sparse(c, attribute_id, result_size) ==
  LET overlapping_tile == CurTile(c, attribute_id)
      c0 == assert(c, ~var_size(attribute_id))
      start_offset == overlapping_tile.cell_pos_ranges_[1][1] * cell_size(attribute_id)
      file_offset == overlapping_tile.pos_ * tile_size(attribute_id) + start_offset
  IN DirectCopy(c0, attribute_id, file_offset, result_size)

copy_tile_partial_contig_sparse(c, attribute_id) ==
  LET overlapping_tile == CurTile(c, attribute_id)
      c0 == assert(c, Len(overlapping_tile.cell_pos_ranges_) <= 1)
      cell_pos_range == overlapping_tile.cell_pos_ranges_[1]
      buffer_free_space == SizeSub(c.buffer_size, c.buffer_offset)
      result_size ==
        (cell_pos_range[2] - cell_pos_range[1] + 1) * cell_size(attribute_id)
  IN With(get_tile_from_disk_cmp_none(c0, attribute_id), LAMBDA c1 :
  IF Halted(c0) THEN c0
  ELSE IF Len(overlapping_tile.cell_pos_ranges_) = 0 THEN Return(c0, "OK")
  ELSE IF result_size <= buffer_free_space
  THEN DirectResult(
         copy_tile_partial_contig_direct_sparse(c0, attribute_id, result_size))
  ELSE IF Halted(c1) \/ c1.rc # "OK" THEN Return(c1, "ERR")
  ELSE Return(copy_from_tile_buffer_partial_contig_sparse(c1, attribute_id), "OK"))

copy_tile_partial_contig_sparse_var(c, attribute_id) ==
  With(get_tile_from_disk_var_cmp_none(c, attribute_id), LAMBDA c1 :
  IF Halted(c1) \/ c1.rc # "OK" THEN Return(c1, "ERR")
  ELSE Return(copy_from_tile_buffer_partial_contig_sparse_var(c1, attribute_id),
              "OK"))

copy_tile_partial_non_contig_sparse(c, attribute_id) ==
  With(get_tile_from_disk_cmp_none(c, attribute_id), LAMBDA c1 :
  IF Halted(c1) \/ c1.rc # "OK" THEN Return(c1, "ERR")
  ELSE Return(copy_from_tile_buffer_partial_non_contig_sparse(c1, attribute_id),
              "OK"))

copy_tile_partial_non_contig_sparse_var(c, attribute_id) ==
  With(get_tile_from_disk_var_cmp_none(c, attribute_id), LAMBDA c1 :
  IF Halted(c1) \/ c1.rc # "OK" THEN Return(c1, "ERR")
  ELSE Return(copy_from_tile_buffer_partial_non_contig_sparse_var(c1, attribute_id),
              "OK"))

RECURSIVE read_sparse_attr_cmp_none_T(_, _)
read_sparse_attr_cmp_none_T(c, attribute_id) ==
  With(IF Pending(c, attribute_id)
       THEN copy_from_tile_buffer_sparse(c, attribute_id) ELSE c, LAMBDA c1 :
  With(IF PastList(c1, attribute_id)
       THEN get_next_overlapping_tile_sparse(c1) ELSE c1, LAMBDA c2 :
  LET overlap == CurTile(c2, attribute_id).overlap_
      held == attribute_id = attribute_num /\
              CurTile(c2, attribute_id).coords_tile_fetched_
  IN With(IF held THEN Return(copy_from_tile_buffer_sparse(c2, attribute_id), "OK")
          ELSE CASE overlap = "FULL" -> copy_tile_full(c2, attribute_id)
            [] overlap = "PARTIAL_CONTIG" ->
                 copy_tile_partial_contig_sparse(c2, attribute_id)
            [] OTHER -> copy_tile_partial_non_contig_sparse(c2, attribute_id), LAMBDA c3 :
  LET c4 == c3
  IN IF Halted(c1) THEN c1
     ELSE IF c1.rs.overflow_[attribute_id] THEN ReturnSize(c1)
     ELSE IF Halted(c2) THEN c2
     ELSE IF ~InList(c2, attribute_id) THEN Halt(c2, "UB")
     ELSE IF overlap = "NONE" /\ ~held THEN ReturnSize(c2)
     ELSE IF Halted(c3) THEN c3
     ELSE IF c3.rc # "OK" THEN Return(c3, "ERR")
     ELSE IF Halted(c4) THEN c4
     ELSE IF c4.rs.overflow_[attribute_id] THEN ReturnSize(c4)
     ELSE IF NoProgress(c4, c) THEN Halt(c4, "HANG")
     ELSE read_sparse_attr_cmp_none_T(c4, attribute_id))))

read_sparse_attr_cmp_none(c, attribute_id) ==
  IF is_empty_attribute(attribute_id)
  THEN Return([c EXCEPT !.buffer_size = 0], "OK")
  ELSE read_sparse_attr_cmp_none_T(c, attribute_id)

RECURSIVE read_sparse_attr_cmp_gzip_T(_, _)
read_sparse_attr_cmp_gzip_T(c, attribute_id) ==
  With(IF Pending(c, attribute_id)
       THEN copy_from_tile_buffer_sparse(c, attribute_id) ELSE c, LAMBDA c1 :
  With(IF PastList(c1, attribute_id)
       THEN get_next_overlapping_tile_sparse(c1) ELSE c1, LAMBDA c2 :
  LET overlap == CurTile(c2, attribute_id).overlap_
  IN With(get_tile_from_disk_cmp_gzip(c2, attribute_id), LAMBDA c3 :
  With(CASE overlap = "FULL" -> copy_from_tile_buffer_full(c3, attribute_id)
         [] overlap = "PARTIAL_CONTIG" ->
              copy_from_tile_buffer_partial_contig_sparse(c3, attribute_id)
         [] OTHER ->
              copy_from_tile_buffer_partial_non_contig_sparse(c3, attribute_id), LAMBDA c4 :
  IF Halted(c1) THEN c1
  ELSE IF c1.rs.overflow_[attribute_id] THEN ReturnSize(c1)
  ELSE IF Halted(c2) THEN c2
  ELSE IF ~InList(c2, attribute_id) THEN Halt(c2, "UB")
  ELSE IF overlap = "NONE" THEN ReturnSize(c2)
  ELSE IF Halted(c3) THEN c3
  ELSE IF c3.rc # "OK" THEN Return(c3, "ERR")
  ELSE IF Halted(c4) THEN c4
  ELSE IF c4.rs.overflow_[attribute_id] THEN ReturnSize(c4)
  ELSE IF NoProgress(c4, c) THEN Halt(c4, "HANG")
  ELSE read_sparse_attr_cmp_gzip_T(c4, attribute_id)))))

read_sparse_attr_cmp_gzip(c, attribute_id) ==
  IF is_empty_attribute(attribute_id)
  THEN Return([c EXCEPT !.buffer_size = 0], "OK")
  ELSE read_sparse_attr_cmp_gzip_T(c, attribute_id)

RECURSIVE read_sparse_attr_var_cmp_none_T(_, _)
read_sparse_attr_var_cmp_none_T(c, attribute_id) ==
  With(IF Pending(c, attribute_id)
       THEN copy_from_tile_buffer_sparse_var(c, attribute_id) ELSE c, LAMBDA c1 :
  With(IF PastList(c1, attribute_id)
       THEN get_next_overlapping_tile_sparse(c1) ELSE c1, LAMBDA c2 :
  LET overlap == CurTile(c2, attribute_id).overlap_
  IN With(CASE overlap = "FULL" -> copy_tile_full_var(c2, attribute_id)
            [] overlap = "PARTIAL_CONTIG" ->
                 copy_tile_partial_contig_sparse_var(c2, attribute_id)
            [] OTHER -> copy_tile_partial_non_contig_sparse_var(c2, attribute_id), LAMBDA c3 :
  LET c4 == c3
  IN IF Halted(c1) THEN c1
     ELSE IF c1.rs.overflow_[attribute_id] THEN ReturnSizeVar(c1)
     ELSE IF Halted(c2) THEN c2
     ELSE IF ~InList(c2, attribute_id) THEN Halt(c2, "UB")
     ELSE IF overlap = "NONE" THEN ReturnSize(c2)
     ELSE IF Halted(c3) THEN c3
     ELSE IF c3.rc # "OK" THEN Return(c3, "ERR")
     ELSE IF Halted(c4) THEN c4
     ELSE IF c4.rs.overflow_[attribute_id] THEN ReturnSizeVar(c4)
     ELSE IF NoProgress(c4, c) THEN Halt(c4, "HANG")
     ELSE read_sparse_attr_var_cmp_none_T(c4, attribute_id))))

read_sparse_attr_var_cmp_none(c, attribute_id) ==
  IF is_empty_attribute(attribute_id)
  THEN Return([c EXCEPT !.buffer_size = 0, !.buffer_var_size = 0], "OK")
  ELSE read_sparse_attr_var_cmp_none_T(c, attribute_id)

RECURSIVE read_sparse_attr_var_cmp_gzip_T(_, _)
read_sparse_attr_var_cmp_gzip_T(c, attribute_id) ==
  With(IF Pending(c, attribute_id)
       THEN copy_from_tile_buffer_sparse_var(c, attribute_id) ELSE c, LAMBDA c1 :
  With(IF PastList(c1, attribute_id)
       THEN get_next_overlapping_tile_sparse(c1) ELSE c1, LAMBDA c2 :
  LET overlap == CurTile(c2, attribute_id).overlap_
  IN With(get_tile_from_disk_var_cmp_gzip(c2, attribute_id), LAMBDA c3 :
  With(CASE overlap = "FULL" -> copy_from_tile_buffer_full_var(c3, attribute_id)
         [] overlap = "PARTIAL_CONTIG" ->
              copy_from_tile_buffer_partial_contig_sparse_var(c3, attribute_id)
         [] OTHER ->
              copy_from_tile_buffer_partial_non_contig_sparse_var(c3, attribute_id), LAMBDA c4 :
  IF Halted(c1) THEN c1
  ELSE IF c1.rs.overflow_[attribute_id] THEN ReturnSizeVar(c1)
  ELSE IF Halted(c2) THEN c2
  ELSE IF ~InList(c2, attribute_id) THEN Halt(c2, "UB")
  ELSE IF overlap = "NONE" THEN ReturnSize(c2)
  ELSE IF Halted(c3) THEN c3
  ELSE IF c3.rc # "OK" THEN Return(c3, "ERR")
  ELSE IF Halted(c4) THEN c4
  ELSE IF c4.rs.overflow_[attribute_id] THEN ReturnSizeVar(c4)
  ELSE IF NoProgress(c4, c) THEN Halt(c4, "HANG")
  ELSE read_sparse_attr_var_cmp_gzip_T(c4, attribute_id)))))

read_sparse_attr_var_cmp_gzip(c, attribute_id) ==
  IF is_empty_attribute(attribute_id)
  THEN Return([c EXCEPT !.buffer_size = 0, !.buffer_var_size = 0], "OK")
  ELSE read_sparse_attr_var_cmp_gzip_T(c, attribute_id)

(***************************************************************************)
(* The facade for sparse fragments, and read.                              *)
(***************************************************************************)
read_sparse_attr(c, attribute_id) ==
  IF c.buffer_size = 0 THEN Return(SetOverflow(c, attribute_id), "OK")
  ELSE IF array.compression[attribute_id] = "NONE"
  THEN read_sparse_attr_cmp_none(c, attribute_id)
  ELSE read_sparse_attr_cmp_gzip(c, attribute_id)

\* read_sparse_attr_var with a trivial case for the offsets buffer only.
read_sparse_attr_var_offsets_only(c, attribute_id) ==
  IF c.buffer_size = 0
  THEN Return([SetOverflow(c, attribute_id) EXCEPT !.buffer_size = 0,
                                                   !.buffer_var_size = 0], "OK")
  ELSE IF array.compression[attribute_id] = "NONE"
  THEN read_sparse_attr_var_cmp_none(c, attribute_id)
  ELSE read_sparse_attr_var_cmp_gzip(c, attribute_id)

read_sparse_attr_var(c, attribute_id) ==
  IF c.buffer_size = 0 \/ c.buffer_var_size = 0
  THEN Return([SetOverflow(c, attribute_id) EXCEPT !.buffer_size = 0,
                                                   !.buffer_var_size = 0], "OK")
  ELSE IF array.compression[attribute_id] = "NONE"
  THEN read_sparse_attr_var_cmp_none(c, attribute_id)
  ELSE read_sparse_attr_var_cmp_gzip(c, attribute_id)

RECURSIVE read_sparse_from_until_overflow(_, _)
\* The loop of read_sparse, leaving it at the first attribute that overflows.
read_sparse_from_until_overflow(c, i) ==
  IF i > Len(array.attribute_ids) THEN c
  ELSE LET attribute_id == array.attribute_ids[i]
       IN With(IF ~var_size(attribute_id)
               THEN read_sparse_attr(WithBuffers(c, i), attribute_id)
               ELSE read_sparse_attr_var(WithBuffers(c, i), attribute_id), LAMBDA c1 :
       With([c1 EXCEPT !.out = Append(@, Output(c1, attribute_id))], LAMBDA c2 :
       IF Halted(c1) THEN c1
       ELSE IF c1.rc # "OK" \/ c1.rs.overflow_[attribute_id] THEN c2
       ELSE read_sparse_from_until_overflow(NextBuffer(c2, attribute_id), i + 1)))

RECURSIVE read_sparse_from(_, _)
\* The loop of read_sparse over attribute_ids, from its i-th element on.
read_sparse_from(c, i) ==
  IF i > Len(array.attribute_ids) THEN c
  ELSE LET attribute_id == array.attribute_ids[i]
       IN With(IF ~var_size(attribute_id)
               THEN read_sparse_attr(WithBuffers(c, i), attribute_id)
               ELSE read_sparse_attr_var(WithBuffers(c, i), attribute_id), LAMBDA c1 :
       With([c1 EXCEPT !.out = Append(@, Output(c1, attribute_id))], LAMBDA c2 :
       IF Halted(c1) THEN c1
       ELSE IF c1.rc # "OK" THEN c2
       ELSE read_sparse_from(NextBuffer(c2, attribute_id), i + 1)))

read_sparse(c) == read_sparse_from(c, 1)

reset_overflow(c) ==
  [c EXCEPT !.rs.overflow_ = [i \in DOMAIN @ |-> FALSE]]

\* A read that takes every mode for the normal read mode.
read_any_mode(c) ==
  With(reset_overflow(c), LAMBDA c0 :
  IF array.dense THEN read_dense(c0) ELSE read_sparse(c0))

\* A read that serves the reverse read mode as the normal read mode.
read_reverse_as_read(c) ==
  With(reset_overflow(c), LAMBDA c0 :
  IF array.mode \in {"TILEDB_READ", "TILEDB_READ_REVERSE"}
  THEN IF array.dense THEN read_dense(c0) ELSE read_sparse(c0)
  ELSE Return(c0, "ERR"))

read(c) ==
  With(reset_overflow(c), LAMBDA c0 :
  IF array.mode = "TILEDB_READ"
  THEN IF array.dense THEN read_dense(c0) ELSE read_sparse(c0)
  ELSE IF array.mode = "TILEDB_READ_REVERSE" THEN Return(c0, "OK")
  ELSE Return(c0, "ERR"))

\* The constructor.
ReadState ==
  IF array.dense THEN init_range_in_tile_domain(Initializations)
  ELSE init_tile_search_range(Initializations)

(***************************************************************************)
(* The queries and the caller.  A query is one fragment (dense or sparse), *)
(* a range, the list of requested attributes, the compression of each      *)
(* attribute, the attributes whose file does not exist, and the build      *)
(* (with or without asserts, read or mmap I/O).                            *)
(***************************************************************************)
Query(dense, range, attribute_ids, gzip, empty, ndebug, mmap) ==
  [dense |-> dense, mode |-> "TILEDB_READ", range |-> range,
   attribute_ids |-> attribute_ids,
   compression |-> [i \in 0..attribute_num |-> IF i \in gzip THEN "GZIP" ELSE "NONE"],
   empty |-> empty, ndebug |-> ndebug, mmap |-> mmap, cell_order |-> "ROW_MAJOR",
   tile_extents |-> <<2, 2>>]

DenseRanges ==
  {<<0, 3, 0, 3>>, <<1, 2, 1, 2>>, <<0, 1, 0, 1>>, <<1, 1, 0, 3>>,
   <<0, 3, 0, 2>>, <<4, 5, 0, 3>>}

SparseRanges ==
  {<<0, 3, 0, 3>>, <<0, 2, 0, 1>>, <<2, 3, 0, 3>>, <<3, 3, 0, 3>>,
   <<0, 2, 0, 3>>, <<1, 1, 0, 3>>, <<2, 2, 1, 1>>, <<1, 1, 1, 1>>,
   <<4, 5, 0, 3>>}

\* Queries of one attribute, uncompressed and compressed.
SingleQueries ==
  {Query(d, r, <<a>>, z, {}, FALSE, FALSE) :
     d \in {TRUE}, r \in DenseRanges, a \in 0..1, z \in {{}, {0, 1}}}
  \cup
  {Query(d, r, <<a>>, z, {}, FALSE, FALSE) :
     d \in {FALSE}, r \in SparseRanges, a \in 0..attribute_num, z \in {{}, {0, 1}}}

\* Queries of two attributes, in both orders of the list.
PairQueries ==
  {Query(d, <<0, 3, 0, 3>>, ids, {}, {}, FALSE, FALSE) :
     d \in BOOLEAN, ids \in {<<0, 1>>, <<1, 0>>}}
  \cup
  {Query(FALSE, <<2, 3, 0, 3>>, ids, {}, {}, FALSE, FALSE) :
     ids \in {<<0, 2>>, <<2, 0>>}}

\* Queries of an attribute whose file does not exist, queries in the other
\* modes, and a query of a build without asserts.
OtherQueries ==
  {Query(d, <<0, 3, 0, 3>>, <<a>>, z, {a}, FALSE, FALSE) :
     d \in BOOLEAN, a \in 0..1, z \in {{}, {0, 1}}}
  \cup
  {Query(d, <<0, 3, 0, 3>>, <<0, 1>>, {}, {a}, FALSE, FALSE) :
     d \in BOOLEAN, a \in 0..1}
  \cup
  {[Query(TRUE, <<0, 3, 0, 3>>, <<0>>, {}, {}, FALSE, FALSE) EXCEPT !.mode = m] :
     m \in {"TILEDB_READ_REVERSE", "TILEDB_WRITE"}}
  \cup
  {Query(TRUE, <<1, 1, 0, 3>>, <<1>>, {}, {}, TRUE, FALSE)}

Queries == SingleQueries \cup PairQueries \cup OtherQueries

\* Queries of a dense array whose tiles have 3 x 2 cells.
SlabRanges ==
  {<<0, 5, 0, 2>>, <<1, 4, 1, 2>>, <<0, 5, 1, 1>>, <<0, 4, 0, 3>>, <<1, 4, 0, 3>>}

SlabQueries ==
  {[Query(TRUE, r, <<a>>, {}, {}, FALSE, FALSE) EXCEPT !.tile_extents = <<3, 2>>] :
     r \in SlabRanges, a \in 0..1}

\* Queries of a sparse array whose cell order is Hilbert.
HilbertRanges ==
  {<<0, 3, 0, 3>>, <<0, 2, 0, 3>>, <<2, 3, 0, 3>>, <<0, 3, 0, 1>>, <<3, 3, 1, 1>>,
   <<1, 1, 1, 1>>}

HilbertQueries ==
  {[Query(FALSE, r, <<a>>, {}, {}, FALSE, FALSE) EXCEPT !.cell_order = "HILBERT"] :
     r \in HilbertRanges, a \in 0..attribute_num}

\* The buffer sizes a caller passes for an attribute: [fixed, var], var
\* being 0 for an attribute of fixed-sized cells.
Size(fixed, var) == [fixed |-> fixed, var |-> var]

Large == 256

FixedSizes == {Size(n, 0) : n \in {0, 4, 18, 20, 32, 64, Large}}

VarSizes ==
  {Size(0, 40), Size(16, 3), Size(16, 5), Size(128, 3), Size(128, 5),
   Size(4, Large), Size(Large, 0), Size(Large, Large)}

SizeChoices(attribute_id, n) ==
  IF n = 1
  THEN IF var_size(attribute_id) THEN VarSizes ELSE FixedSizes
  ELSE IF var_size(attribute_id) THEN {Size(16, 5), Size(Large, Large)}
  ELSE {Size(4, 0), Size(Large, 0)}

\* The sizes a caller can pass to a read call of the query.
SizesOf(ids) ==
  {s \in [1..Len(ids) -> FixedSizes \cup VarSizes] :
     \A i \in 1..Len(ids) : s[i] \in SizeChoices(ids[i], Len(ids))}

(***************************************************************************)
(* Faults.  A call runs with at most one fault: its fault.at-th external   *)
(* operation (a read of a file, a mapping of a file, a decompression)      *)
(* fails in the way fault.kind says, if it is an operation that can.       *)
(* "size" is a gunzip that succeeds with another size than the tile's.     *)
(***************************************************************************)
MaxFaultAt == 3

FaultKinds ==
  {"read"}
  \cup (IF array.mmap THEN {"munmap", "open", "mmap", "close"} ELSE {})
  \cup (IF \E i \in 1..Len(array.attribute_ids) :
             array.compression[array.attribute_ids[i]] = "GZIP"
        THEN {"gunzip", "size"} ELSE {})

Faults == {[at |-> n, kind |-> k] : n \in 1..MaxFaultAt, k \in FaultKinds}

\* Queries of the runs with faults: both builds of the I/O; compressed
\* attributes with and without asserts.
FaultQueries ==
  {Query(d, r, <<a>>, b[1], {}, b[2], m) :
     d \in {TRUE}, r \in {<<0, 3, 0, 3>>, <<1, 1, 0, 3>>}, a \in 0..1,
     b \in {<<{}, FALSE>>, <<{0, 1}, FALSE>>, <<{0, 1}, TRUE>>}, m \in BOOLEAN}
  \cup
  {Query(d, r, <<a>>, b[1], {}, b[2], m) :
     d \in {FALSE}, r \in {<<3, 3, 0, 3>>, <<0, 2, 0, 1>>}, a \in 0..1,
     b \in {<<{}, FALSE>>, <<{0, 1}, FALSE>>, <<{0, 1}, TRUE>>}, m \in BOOLEAN}
  \cup
  {Query(d, r, ids, {}, {}, FALSE, FALSE) :
     d \in BOOLEAN, r \in {<<0, 3, 0, 3>>, <<2, 3, 0, 3>>},
     ids \in {<<0, 1>>, <<1, 0>>}}

\* The sizes a caller passes in the runs with faults.
FewSizesOf(ids) ==
  {s \in [1..Len(ids) -> FixedSizes \cup VarSizes] :
     \A i \in 1..Len(ids) : s[i] \in SizeChoices(ids[i], 2)}

(***************************************************************************)
(* What the caller has received, per attribute, over the calls so far:     *)
(* the bytes of the fixed buffer (or the cells of the entries of the       *)
(* offsets buffer) and the bytes of the variable buffer, up to the call    *)
(* that returned with the overflow flag of the attribute false (done).     *)
(* overflowed: a call left the flag true; zero: a call passed a size 0;    *)
(* resume: whether every call after the first overflow passed Large sizes. *)
(***************************************************************************)
NoHistory ==
  [buffer |-> <<>>, var |-> <<>>, done |-> FALSE, overflowed |-> FALSE,
   zero |-> FALSE, resume |-> "none"]

EntryCells(entries) == [i \in 1..Len(entries) |-> entries[i][1]]

IsLarge(size, attribute_id) ==
  size.fixed = Large /\ (var_size(attribute_id) => size.var = Large)

IsZero(size, attribute_id) ==
  size.fixed = 0 \/ (var_size(attribute_id) /\ size.var = 0)

Receive(h, o, size) ==
  IF h.done THEN h
  ELSE [buffer |-> IF var_size(o.attribute_id)
                   THEN h.buffer \o EntryCells(o.buffer)
                   ELSE SegConcat(h.buffer, o.buffer),
        var |-> SegConcat(h.var, o.buffer_var),
        done |-> o.rc = "OK" /\ ~o.overflow,
        overflowed |-> h.overflowed \/ o.overflow,
        zero |-> h.zero \/ IsZero(size, o.attribute_id),
        resume |-> IF ~h.overflowed THEN "none"
                   ELSE IF h.resume # "small" /\ IsLarge(size, o.attribute_id)
                   THEN "large" ELSE "small"]

RECURSIVE ReceiveAll(_, _, _, _)
ReceiveAll(acc, out, sizes, i) ==
  IF i > Len(out) THEN acc
  ELSE ReceiveAll([acc EXCEPT ![out[i].attribute_id] = Receive(@, out[i], sizes[i])],
                  out, sizes, i + 1)

(***************************************************************************)
(* The state machine.                                                      *)
(***************************************************************************)
NoCall ==
  [rc |-> "INIT", sizes |-> <<>>, out |-> <<>>, fault |-> NoFault,
   failed |-> FALSE, mismatch |-> FALSE, pre |-> ReadState, post |-> ReadState,
   start |-> ReadState, reaps |-> <<>>, resolves |-> <<>>, steps |-> <<>>,
   copies |-> <<>>, maps |-> <<>>]

Start(queries) ==
  /\ array \in queries
  /\ rs = ReadState
  /\ ret = NoCall
  /\ hist = [calls |-> 0, acc |-> [a \in 0..attribute_num |-> NoHistory],
             mem |-> NoMemory]

Init == Start(Queries)

InitFault == Start(FaultQueries)

\* The queries that request an attribute whose file does not exist.
InitEmpty == Start({q \in Queries : q.empty # {}})

\* One call of read.  A call that does not return (abort, undefined
\* behaviour, endless loop) and a call that returns an error end the run.
Call(sizes, fault) ==
  /\ hist.calls < MaxCalls
  /\ ret.rc \in {"INIT", "OK"}
  /\ With(read([NewContext(fault) EXCEPT !.sizes = sizes]), LAMBDA c :
     /\ rs' = IF Halted(c) THEN rs ELSE c.rs
     /\ ret' = [rc |-> IF Halted(c) THEN c.halt ELSE c.rc,
                sizes |-> sizes, out |-> c.out, fault |-> fault,
                failed |-> c.failed, mismatch |-> c.mismatch,
                pre |-> c.pre, post |-> c.rs, start |-> rs,
                reaps |-> c.reaps, resolves |-> c.resolves, steps |-> c.steps,
                copies |-> c.copies, maps |-> c.maps]
     /\ hist' = [calls |-> hist.calls + 1,
                 acc |-> IF Halted(c) THEN hist.acc
                         ELSE ReceiveAll(hist.acc, c.out, sizes, 1),
                 mem |-> IF Halted(c) THEN hist.mem ELSE c.mem])
  /\ UNCHANGED array

Read == \E sizes \in SizesOf(array.attribute_ids) : Call(sizes, NoFault)

ReadFault ==
  \E sizes \in FewSizesOf(array.attribute_ids), fault \in Faults : Call(sizes, fault)

ReadFew == \E sizes \in FewSizesOf(array.attribute_ids) : Call(sizes, NoFault)

Next == Read

NextFault == ReadFew \/ ReadFault

Spec == Init /\ [][Next]_vars

SpecFault == InitFault /\ [][NextFault]_vars

SpecEmpty == InitEmpty /\ [][Next]_vars

InitHilbert == Start(HilbertQueries)

InitSlab == Start(SlabQueries)

SpecSlab == InitSlab /\ [][Next]_vars

SpecHilbert == InitHilbert /\ [][Next]_vars

(***************************************************************************)
(* What a query asks for: the cells of the fragment whose coordinates lie  *)
(* in the range, in the global cell order (tile by tile, and in cell order *)
(* inside a tile).                                                         *)
(***************************************************************************)
\* Coordinates of cell k of the fragment.
CellCoords(k) ==
  IF array.dense
  THEN LET t == k \div cell_num_per_tile
           p == k % cell_num_per_tile
           tiles_per_row == tile_domain[4] - tile_domain[3] + 1
       IN <<(t \div tiles_per_row) * tile_extents[1] + (p \div tile_extents[2]),
            (t % tiles_per_row) * tile_extents[2] + (p % tile_extents[2])>>
  ELSE Coords[k + 1]

QualifyingCells ==
  SelectSeq([i \in 1..CellNum |-> i - 1],
            LAMBDA k : cell_in_range(CellCoords(k), array.range))

RECURSIVE CellBytes(_, _, _)
\* The bytes of the cells in the file of a fixed attribute; with variable
\* = TRUE, the bytes of their values in the file of variable-sized values.
CellBytes(cells, attribute_id, variable) ==
  IF cells = <<>> THEN <<>>
  ELSE LET k == cells[Len(cells)]
           rest == CellBytes(SubSeq(cells, 1, Len(cells) - 1), attribute_id, variable)
       IN IF variable THEN AppendSeg(rest, VarFileOffset(k), VarLen(k))
          ELSE AppendSeg(rest, k * cell_size(attribute_id), cell_size(attribute_id))

Requested(attribute_id) ==
  \E i \in 1..Len(array.attribute_ids) : array.attribute_ids[i] = attribute_id

\* C1: completeness under resumption for fixed-size attributes.  Once a
\* call has returned with the overflow flag of a requested fixed-size
\* attribute false, every call so far having passed a non-zero buffer
\* size, the bytes the caller received over the calls are the bytes of the
\* cells of the query range, each once, in the global cell order.
C1_CompleteUnderResumption ==
  \A a \in {0, attribute_num} :
     (/\ Requested(a) /\ ~is_empty_attribute(a)
      /\ hist.acc[a].done /\ ~hist.acc[a].zero)
     => hist.acc[a].buffer = CellBytes(QualifyingCells, a, FALSE)

\* C2: no copy step writes past the buffer of the caller.  The running
\* offsets only grow during a call, so they stay within the sizes passed
\* iff they are within them when the attribute has been read.
C2_NoWritePastBuffer ==
  \A i \in 1..Len(ret.out) :
     /\ ret.out[i].buffer_offset <= ret.sizes[i].fixed
     /\ var_size(ret.out[i].attribute_id)
          => ret.out[i].buffer_var_offset <= ret.sizes[i].var

\* C3: offset monotonicity.  After a successful call the offsets written
\* for a variable attribute are non-decreasing, the first is 0, and the
\* last plus the length of its cell is the number of variable bytes
\* reported as written.
C3_OffsetMonotonicity ==
  ret.rc = "OK" =>
    \A i \in 1..Len(ret.out) :
       LET o == ret.out[i]
           n == Len(o.buffer)
       IN (var_size(o.attribute_id) /\ n > 0) =>
            /\ o.buffer[1][2] = 0
            /\ \A j \in 1..(n - 1) : o.buffer[j][2] <= o.buffer[j + 1][2]
            /\ o.buffer[n][1] # Junk
            /\ o.buffer[n][2] + VarLen(o.buffer[n][1]) = o.buffer_var_size

\* C4: when read returns success in normal read mode, every size passed
\* for a requested attribute holds the number of bytes written into that
\* buffer during the call, both sizes for a variable attribute.
C4_SizesWrittenBack ==
  (ret.rc = "OK" /\ array.mode = "TILEDB_READ") =>
    /\ Len(ret.out) = Len(array.attribute_ids)
    /\ \A i \in 1..Len(ret.out) :
         LET o == ret.out[i]
         IN IF var_size(o.attribute_id)
            THEN /\ o.buffer_size = Len(o.buffer) * TILEDB_CELL_VAR_OFFSET_SIZE
                 /\ o.buffer_var_size = SegBytes(o.buffer_var)
            ELSE o.buffer_size = SegBytes(o.buffer)

\* The read of the whole query in one call with buffers nothing overflows.
ReferenceRead ==
  read([NewContext(NoFault) EXCEPT
          !.rs = ReadState,
          !.sizes = [i \in 1..Len(array.attribute_ids) |-> Size(Large, Large)]])

ReferenceOutput(attribute_id) ==
  LET i == CHOOSE j \in 1..Len(array.attribute_ids) :
             array.attribute_ids[j] = attribute_id
  IN ReferenceRead.out[i]

\* C5: resumption of a variable attribute.  When a call has overflowed on
\* a variable attribute and every call after it has passed buffers large
\* enough for all the data, the read is complete and the cells delivered
\* over the calls, entries and variable bytes, are those of one read with
\* buffers nothing overflows, in the same order.
C5_VarResumption ==
  \A a \in 0..(attribute_num - 1) :
     (/\ var_size(a) /\ Requested(a) /\ ~is_empty_attribute(a)
      /\ hist.acc[a].resume = "large"
      /\ ~Halted(ReferenceRead))
     => /\ ret.rc = "OK"
        /\ hist.acc[a].done
        /\ hist.acc[a].buffer = EntryCells(ReferenceOutput(a).buffer)
        /\ hist.acc[a].var = ReferenceOutput(a).buffer_var

\* The failures of a file or of a mapping.
FileFaults == {"read", "open", "close", "mmap", "munmap"}

\* C6: every failure of a file or of a mapping while a tile is fetched
\* makes the read call return an error, in every copy path.
C6_IoFailureIsError ==
  (ret.failed /\ ret.fault.kind \in FileFaults) => ret.rc = "ERR"

\* C7 as stated: a read of an empty attribute reports zero bytes written
\* and leaves the overflow flag of the attribute false, whatever sizes are
\* passed.
C7_EmptyAttributeAnySize ==
  ret.rc = "OK" =>
    \A i \in 1..Len(ret.out) :
       LET o == ret.out[i]
       IN o.attribute_id \in array.empty =>
            /\ o.buffer_size = 0
            /\ var_size(o.attribute_id) => o.buffer_var_size = 0
            /\ ~o.overflow

\* C7: a read of an empty attribute returns success and reports zero bytes
\* written; it leaves the overflow flag of the attribute false when the
\* sizes passed are non-zero, and sets it when a size passed is zero.
C7_EmptyAttribute ==
  \A i \in 1..Len(ret.out) :
     LET o == ret.out[i]
     IN o.attribute_id \in array.empty =>
          /\ o.rc = "OK"
          /\ o.buffer_size = 0
          /\ o.buffer_offset = 0
          /\ var_size(o.attribute_id) =>
               o.buffer_var_size = 0 /\ o.buffer_var_offset = 0
          /\ o.overflow <=> IsZero(ret.sizes[i], o.attribute_id)

\* An empty attribute has been read with non-zero sizes, after a call
\* that passed a zero size for it.
C7_Witness ==
  /\ ret.rc = "OK"
  /\ \E i \in 1..Len(ret.out) :
       /\ ret.out[i].attribute_id \in array.empty
       /\ ~IsZero(ret.sizes[i], ret.out[i].attribute_id)
       /\ ~ret.out[i].overflow
       /\ hist.acc[ret.out[i].attribute_id].zero

\* The range of the query overlaps no tile of the fragment.
ZeroOverlap ==
  IF array.dense
  THEN \A x \in tile_domain[1]..tile_domain[2], y \in tile_domain[3]..tile_domain[4] :
         compute_tile_range_overlap(array.range, <<x, y>>).overlap = 0
  ELSE \A pos \in 0..(tile_num - 1) :
         compute_mbr_range_overlap(array.range, mbrs(pos)).overlap = 0

\* C8: when the range overlaps no tile, every read call with non-zero
\* buffers returns success, reports zero bytes for every requested
\* attribute and leaves every overflow flag false.
C8_ZeroOverlap ==
  (/\ ZeroOverlap /\ array.mode = "TILEDB_READ" /\ ret.rc # "INIT"
   /\ \A i \in 1..Len(ret.sizes) :
        ~IsZero(ret.sizes[i], array.attribute_ids[i]))
  => /\ ret.rc = "OK"
     /\ Len(ret.out) = Len(array.attribute_ids)
     /\ \A i \in 1..Len(ret.out) :
          /\ ret.out[i].buffer_size = 0
          /\ var_size(ret.out[i].attribute_id) => ret.out[i].buffer_var_size = 0
          /\ ~ret.out[i].overflow

\* A buffer holds indeterminate bytes.
HasJunk(buf) == \E j \in 1..Len(buf) : buf[j][1] = Junk

\* C9: a gunzip that produces another byte count than the logical size of
\* the tile makes the read call return an error, and no byte of that tile
\* reaches the buffers of the caller.
C9_SizeMismatchIsError ==
  ret.mismatch =>
    /\ ret.rc = "ERR"
    /\ \A i \in 1..Len(ret.out) :
         ~HasJunk(ret.out[i].buffer) /\ ~HasJunk(ret.out[i].buffer_var)

\* The cursor of an attribute: the tile it points at (NULL when its
\* position is not an entry of the list), the byte offset in the tile
\* buffer, the offset in the variable segment, the interval index.
Cursor(r, attribute_id) ==
  LET pos == r.overlapping_tiles_pos_[attribute_id]
  IN [tile |-> IF pos >= 0 /\ pos < Len(r.overlapping_tiles_)
               THEN r.overlapping_tiles_[pos + 1].pos_ ELSE NULL,
      tile_offset |-> r.tiles_offsets_[attribute_id],
      var_offset |-> IF attribute_id < attribute_num
                     THEN r.tiles_var_offsets_[attribute_id] ELSE 0,
      range_pos |-> r.cell_pos_range_pos_[attribute_id]]

\* The cursor of the attribute is in after what it is in before.  An
\* attribute that points past the list before has no tile yet: the tile is
\* compared for an attribute that points at an entry.
CursorKept(before, after, attribute_id) ==
  LET p == Cursor(before, attribute_id)
      q == Cursor(after, attribute_id)
  IN IF p.tile = NULL THEN [q EXCEPT !.tile = NULL] = p ELSE q = p

\* C10: failure atomicity across attributes.  When tile I/O fails while an
\* attribute is read, read returns the error and the cursor of every other
\* requested attribute is what it was when that attribute was taken up.
C10_FailureAtomicity ==
  (ret.failed /\ Len(ret.out) > 0) =>
    /\ ret.rc = "ERR"
    /\ \A i \in 1..Len(array.attribute_ids) :
         LET b == array.attribute_ids[i]
         IN b # ret.out[Len(ret.out)].attribute_id =>
              CursorKept(ret.pre, ret.post, b)

(***************************************************************************)
(* The cursors over a sequence of calls.                                   *)
(***************************************************************************)
Returned == ret.rc \in {"OK", "ERR"}

RECURSIVE Removed(_, _)
\* The number of entries the reaps i.. of the call removed from the list.
Removed(reaps, i) ==
  IF i > Len(reaps) THEN 0
  ELSE Len(reaps[i].before.overlapping_tiles_)
       - Len(reaps[i].after.overlapping_tiles_) + Removed(reaps, i + 1)

\* The pair (tiles finished, byte offset in the tile buffer) of an
\* attribute, the tiles finished being counted from the list as it was
\* when `removed` entries had not been removed yet.
Progress(r, removed, attribute_id) ==
  <<r.overlapping_tiles_pos_[attribute_id] + removed, r.tiles_offsets_[attribute_id]>>

LexLeq(p, q) == p[1] < q[1] \/ (p[1] = q[1] /\ p[2] <= q[2])

RequestedIds == {array.attribute_ids[i] : i \in 1..Len(array.attribute_ids)}

\* C11: cursor monotonicity.  Over a read call that returns, the pair
\* (overlapping tiles finished, byte offset into the current tile buffer)
\* of every requested attribute does not decrease in lexicographic order,
\* the tiles the reaper removed being counted as finished.
C11_CursorMonotone ==
  Returned =>
    \A a \in RequestedIds :
       LexLeq(Progress(ret.start, 0, a),
              Progress(ret.post, Removed(ret.reaps, 1), a))

\* C11 read tile by tile: over a read call that returns, the number of
\* overlapping tiles a requested attribute has finished does not decrease,
\* and while its tile buffer holds the same tile its byte offset into that
\* tile does not decrease.
C11_CursorMonotonePerTile ==
  Returned =>
    \A a \in RequestedIds :
       /\ Progress(ret.start, 0, a)[1] <= Progress(ret.post, Removed(ret.reaps, 1), a)[1]
       /\ (ret.start.tiles_[a] >= 0 /\ ret.post.tiles_[a] = ret.start.tiles_[a]) =>
             ret.start.tiles_offsets_[a] <= ret.post.tiles_offsets_[a]

(***************************************************************************)
(* The reaper.                                                             *)
(***************************************************************************)
SetMax(S) == CHOOSE m \in S : \A x \in S : m >= x

\* max - min of the positions of the requested attributes.
Drift(r) ==
  LET P == {r.overlapping_tiles_pos_[a] : a \in RequestedIds}
  IN SetMax(P) - SetMin(P)

\* C12: reaper soundness.  After every push of the iterator followed by
\* the reap, the overlapping tile list has at most 1 + (max - min of the
\* positions of the requested attributes) entries.
C12_ReaperSoundness ==
  \A i \in 1..Len(ret.reaps) :
     Len(ret.reaps[i].after.overlapping_tiles_) <= 1 + Drift(ret.reaps[i].after)

\* The position of the attribute is a position of the list.
Designates(r, attribute_id) ==
  /\ r.overlapping_tiles_pos_[attribute_id] >= 0
  /\ r.overlapping_tiles_pos_[attribute_id] < Len(r.overlapping_tiles_)

\* The entry of the list the attribute designates.
Designated(r, attribute_id) ==
  r.overlapping_tiles_[r.overlapping_tiles_pos_[attribute_id] + 1]

\* C19: the reaper removes an entry only after every requested attribute
\* has moved past it.  After every reap, every requested attribute that
\* designated an entry of the list designates the same entry (same tile
\* position, same contents).
C19_ReaperKeepsDesignation ==
  \A i \in 1..Len(ret.reaps) :
     \A a \in RequestedIds :
        Designates(ret.reaps[i].before, a) =>
          /\ Designates(ret.reaps[i].after, a)
          /\ Designated(ret.reaps[i].after, a) = Designated(ret.reaps[i].before, a)

(***************************************************************************)
(* The resolver of cell positions.                                         *)
(***************************************************************************)
\* The positions of the cells of the tile at position pos whose coordinates
\* lie inside the query range.
QualifyingPositions(pos) ==
  {k \in 0..(TileCellNum(pos) - 1) : cell_in_range(TileCoords(pos)[k + 1], array.range)}

\* The positions the intervals of a list cover.
Covered(ranges) ==
  UNION {ranges[j][1]..ranges[j][2] : j \in 1..Len(ranges)}

\* The intervals are not empty, pairwise disjoint and in increasing order.
Increasing(ranges) ==
  /\ \A j \in 1..Len(ranges) : ranges[j][1] <= ranges[j][2]
  /\ \A j \in 1..(Len(ranges) - 1) : ranges[j][2] < ranges[j + 1][1]

\* The resolutions of the last call for entries of partial overlap.
PartialResolves ==
  {i \in 1..Len(ret.resolves) :
     ret.resolves[i].overlap \in {"PARTIAL_CONTIG", "PARTIAL_NON_CONTIG"}}

\* C13: overlap classification.  For every sparse tile of partial overlap
\* the resolver handles, the intervals it records are pairwise disjoint,
\* in increasing order, and their union is the set of the cell positions
\* of that tile whose coordinates lie inside the query range.
C13_OverlapClassification ==
  \A i \in PartialResolves :
     /\ ret.resolves[i].halt = ""
     /\ Increasing(ret.resolves[i].found)
     /\ Covered(ret.resolves[i].found) = QualifyingPositions(ret.resolves[i].entry)

\* C13 for the resolutions that searched the coordinate tile of the entry.
C13_OverlapClassificationOwnTile ==
  \A i \in PartialResolves :
     ret.resolves[i].searched = ret.resolves[i].entry =>
       /\ ret.resolves[i].halt = ""
       /\ Increasing(ret.resolves[i].found)
       /\ Covered(ret.resolves[i].found) = QualifyingPositions(ret.resolves[i].entry)

\* C20: whenever the resolver computes the cell position intervals of a
\* newly pushed sparse entry of partial overlap, the coordinate tile it
\* searches is the coordinate tile of the tile position of that entry.
C20_ResolverSearchesOwnTile ==
  \A i \in PartialResolves :
     ret.resolves[i].searched = ret.resolves[i].entry

(***************************************************************************)
(* The two builds of the I/O side by side: the same query is read by a     *)
(* read state of the build of read_tile_from_file_* (rs, ret) and by one   *)
(* of the build of read_tile_from_file_with_mmap_* (ret.twin), call by     *)
(* call with the same buffer sizes and no fault.                           *)
(***************************************************************************)
\* The queries read side by side.
TwinQueries ==
  {q \in SingleQueries \cup PairQueries : q.range # <<4, 5, 0, 3>>}

NoTwin == [rc |-> "INIT", rs |-> ReadState, out |-> <<>>]

InitTwin ==
  /\ array \in TwinQueries
  /\ rs = ReadState
  /\ ret = [twin |-> NoTwin] @@ NoCall
  /\ hist = [calls |-> 0, acc |-> [a \in 0..attribute_num |-> NoHistory],
             mem |-> NoMemory]

\* One call of read in each build.
CallTwin(sizes) ==
  /\ hist.calls < MaxCalls
  /\ ret.rc \in {"INIT", "OK"}
  /\ ret.twin.rc \in {"INIT", "OK"}
  /\ With(read([NewContext(NoFault) EXCEPT !.sizes = sizes, !.mmap = FALSE]), LAMBDA c :
     With(read([NewContext(NoFault) EXCEPT !.sizes = sizes, !.mmap = TRUE,
                                            !.rs = ret.twin.rs,
                                            !.pre = ret.twin.rs]), LAMBDA m :
     /\ rs' = IF Halted(c) THEN rs ELSE c.rs
     /\ ret' = [rc |-> IF Halted(c) THEN c.halt ELSE c.rc,
                sizes |-> sizes, out |-> c.out, fault |-> NoFault,
                failed |-> c.failed, mismatch |-> c.mismatch,
                pre |-> c.pre, post |-> c.rs, start |-> rs,
                reaps |-> c.reaps, resolves |-> c.resolves, steps |-> c.steps,
                copies |-> c.copies, maps |-> c.maps,
                twin |-> [rc |-> IF Halted(m) THEN m.halt ELSE m.rc,
                          rs |-> IF Halted(m) THEN ret.twin.rs ELSE m.rs,
                          out |-> m.out]]
     /\ hist' = [calls |-> hist.calls + 1,
                 acc |-> IF Halted(c) THEN hist.acc
                         ELSE ReceiveAll(hist.acc, c.out, sizes, 1),
                 mem |-> IF Halted(c) THEN hist.mem ELSE c.mem]))
  /\ UNCHANGED array

ReadTwin == \E sizes \in SizesOf(array.attribute_ids) : CallTwin(sizes)

NextTwin == ReadTwin

SpecTwin == InitTwin /\ [][NextTwin]_vars

\* The two builds gave the same outcome, taking indeterminate bytes as equal.
TwinSameShape == ret.twin.rc = ret.rc /\ ret.twin.out = ret.out

\* The bytes a returned call delivered are bytes of the tiles.  A byte read
\* outside the tile is indeterminate, and not the same in the two builds:
\* memory of the heap around the tile buffer in the one, the page of the
\* file the tile is mapped from in the other.
TwinDeterminate ==
  /\ \A i \in 1..Len(ret.out) :
        ~HasJunk(ret.out[i].buffer) /\ ~HasJunk(ret.out[i].buffer_var)
  /\ \A i \in 1..Len(ret.twin.out) :
        ~HasJunk(ret.twin.out[i].buffer) /\ ~HasJunk(ret.twin.out[i].buffer_var)

\* C14: mmap equivalence.  With no I/O failure, in every read call that
\* returns, the read state of the build that reads tiles with read and the
\* one of the build that maps them return the same code, the same bytes,
\* the same reported sizes and the same overflow flags.
C14_MmapEquivalence ==
  (ret.rc \in {"OK", "ERR"} \/ ret.twin.rc \in {"OK", "ERR"}) =>
     TwinSameShape /\ TwinDeterminate

(***************************************************************************)
(* The scenario of the dense array of the write example.                   *)
(***************************************************************************)
\* buffer_a1 of the write example: the values of a1 in the order of the
\* file, tile by tile.
buffer_a1 ==
  <<0, 1, 2, 3,
    4, 5, 6, 7,
    8, 9, 10, 11,
    12, 13, 14, 15>>

RECURSIVE IntsOf(_)
\* The int32 values of a buffer holding whole cells of the file of a1.
IntsOf(buf) ==
  IF buf = <<>> THEN <<>>
  ELSE [i \in 1..(buf[1][2] \div IntSize) |->
          IF buf[1][1] = Junk \/ buf[1][1] % IntSize # 0 THEN Junk
          ELSE buffer_a1[buf[1][1] \div IntSize + i]]
       \o IntsOf(Tail(buf))

\* The first read call of the dense array, range [1..2, 1..2], attribute
\* a1 uncompressed, with a buffer of 32 bytes, has been made.
Scenario2 ==
  /\ array.dense /\ array.range = <<1, 2, 1, 2>> /\ array.attribute_ids = <<0>>
  /\ array.compression[0] = "NONE" /\ array.empty = {}
  /\ hist.calls = 1
  /\ ret.sizes = <<Size(32, 0)>>

\* C15 as stated: the read of range [1..2, 1..2] with a 32-byte buffer
\* writes the values 5, 6, 9, 10 in that order, reports 16 bytes and leaves
\* the overflow flag false.
C15_ScenarioAsStated ==
  Scenario2 =>
    /\ ret.rc = "OK"
    /\ IntsOf(ret.out[1].buffer) = <<5, 6, 9, 10>>
    /\ ret.out[1].buffer_size = 16
    /\ ~ret.out[1].overflow

\* C15 amended: the read of range [1..2, 1..2] with a 32-byte buffer writes
\* the values 3, 6, 9, 12 in that order (the cells (1,1), (1,2), (2,1),
\* (2,2) of the array written tile by tile), reports 16 bytes and leaves
\* the overflow flag false.
C15_Scenario ==
  Scenario2 =>
    /\ ret.rc = "OK"
    /\ IntsOf(ret.out[1].buffer) = <<3, 6, 9, 12>>
    /\ ret.out[1].buffer_size = 16
    /\ ~ret.out[1].overflow

\* The read of the scenario has returned four cells.
C15_Witness ==
  /\ Scenario2
  /\ ret.rc = "OK"
  /\ Len(IntsOf(ret.out[1].buffer)) = 4

(***************************************************************************)
(* The mode of the array.                                                  *)
(***************************************************************************)
\* The mode of the array is neither the normal nor the reverse read mode.
InvalidMode == array.mode \notin {"TILEDB_READ", "TILEDB_READ_REVERSE"}

\* C16: in a mode that is neither the normal read mode nor the reverse
\* read mode, read returns an error, and it fetches no tile, moves no
\* cursor of an attribute, leaves the list of overlapping tiles as it was
\* and modifies no buffer size.
C16_InvalidModeIsError ==
  (InvalidMode /\ ret.rc # "INIT") =>
     /\ ret.rc = "ERR"
     /\ ret.post.tiles_ = ret.start.tiles_
     /\ ret.post.tiles_var_ = ret.start.tiles_var_
     /\ ret.post.tiles_sizes_ = ret.start.tiles_sizes_
     /\ ret.post.overlapping_tiles_pos_ = ret.start.overlapping_tiles_pos_
     /\ ret.post.tiles_offsets_ = ret.start.tiles_offsets_
     /\ ret.post.tiles_var_offsets_ = ret.start.tiles_var_offsets_
     /\ ret.post.overlapping_tiles_ = ret.start.overlapping_tiles_
     /\ ret.out = <<>>

\* A read call has been made on an array in write mode, with a buffer
\* that has room for cells.
C16_Witness ==
  /\ array.mode = "TILEDB_WRITE"
  /\ ret.rc = "ERR"
  /\ \E i \in 1..Len(ret.sizes) : ret.sizes[i].fixed > 0

(***************************************************************************)
(* The buffers of the attributes.                                          *)
(***************************************************************************)
\* Number of the first n requested attributes whose cells are of variable
\* size.
VarBefore(n) == Cardinality({j \in 1..n : var_size(array.attribute_ids[j])})

\* The buffers the i-th requested attribute is to use.
SlotsOf(i) ==
  LET first == (i - 1 - VarBefore(i - 1)) + 2 * VarBefore(i - 1)
  IN IF var_size(array.attribute_ids[i]) THEN <<first, first + 1>> ELSE <<first>>

\* C17: buffer slot assignment.  In a read call the i-th requested
\* attribute uses the buffer (number of attributes of fixed size requested
\* before it) + 2 x (number of attributes of variable size requested before
\* it); an attribute of variable size uses that buffer for its offsets and
\* the next one for its values; no buffer is used by two attributes.
C17_BufferSlots ==
  /\ \A i \in 1..Len(ret.out) :
        /\ ret.out[i].attribute_id = array.attribute_ids[i]
        /\ ret.out[i].slots = SlotsOf(i)
  /\ \A i, j \in 1..Len(ret.out) :
        i # j => \A k \in 1..Len(ret.out[i].slots), l \in 1..Len(ret.out[j].slots) :
                    ret.out[i].slots[k] # ret.out[j].slots[l]

\* A call has read an attribute of variable size and, after it, another
\* attribute.
C17_Witness ==
  /\ ret.rc = "OK"
  /\ Len(ret.out) = 2
  /\ var_size(ret.out[1].attribute_id)
  /\ ret.out[2].slots = <<2>>

(***************************************************************************)
(* Termination.                                                            *)
(***************************************************************************)
\* C18: every read call terminates.  No pass of the read loop of an
\* attribute leaves the read state and the buffers as it found them
\* without the overflow flag set, a None entry reached or an error
\* returned; also not for a sparse entry of partial overlap whose list of
\* cell position intervals is empty.
C18_ReadTerminates == ret.rc # "HANG"

(***************************************************************************)
(* compute_bytes_to_copy on its own: the offsets tile and the variable     *)
(* tile of a tile of the fragment are loaded, and the helper is applied    *)
(* to a run of cells of the tile and to free spaces of the two buffers.    *)
(***************************************************************************)
FitQueries ==
  {Query(d, <<0, 3, 0, 3>>, <<1>>, {}, {}, FALSE, FALSE) : d \in BOOLEAN}

\* Number of cells of the tile at position pos of the fragment.
CellNumOf(pos) == IF array.dense THEN cell_num_per_tile ELSE TileCellNum(pos)

\* The read state once attribute a2 has loaded the tile at position pos,
\* a tile of full overlap, first of the list.
Loaded(pos) ==
  [ReadState EXCEPT
     !.overlapping_tiles_ =
        <<[pos_ |-> pos, overlap_ |-> "FULL", coords_ |-> <<>>,
           overlap_range_ |-> array.range, cell_num_ |-> CellNumOf(pos),
           cell_pos_ranges_ |-> <<>>, coords_tile_fetched_ |-> FALSE]>>,
     !.tiles_[1] = pos,
     !.tiles_sizes_[1] = CellNumOf(pos) * TILEDB_CELL_VAR_OFFSET_SIZE,
     !.tiles_var_[1] = pos,
     !.tiles_var_sizes_[1] = TileVarSize(pos)]

\* The largest free space of the variable buffer tried.
MaxFree == 12

InitFit ==
  /\ array \in FitQueries
  /\ rs = ReadState
  /\ ret = NoCall
  /\ hist = [calls |-> 0, acc |-> [a \in 0..attribute_num |-> NoHistory],
             mem |-> NoMemory]

\* One application of the helper.
Fit(pos, start_cell_pos, end_cell_pos, buffer_free_space, buffer_var_free_space) ==
  /\ hist.calls < 1
  /\ rs' = Loaded(pos)
  /\ ret' = [rc |-> "FIT", pos |-> pos,
             start_cell_pos |-> start_cell_pos, end_cell_pos |-> end_cell_pos,
             buffer_free_space |-> buffer_free_space,
             buffer_var_free_space |-> buffer_var_free_space,
             fit |-> compute_bytes_to_copy(
                       [NewContext(NoFault) EXCEPT !.rs = Loaded(pos)], 1,
                       start_cell_pos, end_cell_pos,
                       buffer_free_space, buffer_var_free_space)]
  /\ hist' = [hist EXCEPT !.calls = @ + 1]
  /\ UNCHANGED array

Fits ==
  \E pos \in 0..(tile_num - 1) :
    \E start_cell_pos \in 0..(CellNumOf(pos) - 1) :
      \E end_cell_pos \in start_cell_pos..(CellNumOf(pos) - 1) :
        \E buffer_free_space \in {TILEDB_CELL_VAR_OFFSET_SIZE, Large} :
          \E buffer_var_free_space \in 1..MaxFree :
            Fit(pos, start_cell_pos, end_cell_pos,
                buffer_free_space, buffer_var_free_space)

NextFit == Fits

SpecFit == InitFit /\ [][NextFit]_vars

\* off[i] of the tile the helper was applied to, off[cell_num] being the
\* size of the variable tile.
FitOff(i) ==
  IF i >= CellNumOf(ret.pos) THEN TileVarSize(ret.pos)
  ELSE VarFileOffset(FirstCell(ret.pos) + i) - VarFileOffset(FirstCell(ret.pos))

\* The cells m of the run such that the cells from the first one to m fit
\* in the free space of the variable buffer.
FitCells ==
  {m \in ret.start_cell_pos..ret.end_cell_pos :
     FitOff(m + 1) - FitOff(ret.start_cell_pos) <= ret.buffer_var_free_space}

\* The variable bytes of the whole run exceed the free space.
FitAdjusts ==
  /\ ret.rc = "FIT"
  /\ FitOff(ret.end_cell_pos + 1) - FitOff(ret.start_cell_pos) > ret.buffer_var_free_space

\* C21: fit_region (compute_bytes_to_copy).  For free spaces greater than
\* 0, when the variable bytes of the cells start..end exceed free_var, the
\* helper returns, for the largest m of start..end with
\* off[m+1] - off[start] <= free_var, bytes_fixed = (m - start + 1) x 8 and
\* bytes_var = off[m+1] - off[start] (0 and 0 when not even the first cell
\* fits); bytes_var is never greater than free_var.
C21_FitRegion ==
  FitAdjusts =>
    /\ ~ret.fit.ub
    /\ ret.fit.bytes_var_to_copy <= ret.buffer_var_free_space
    /\ IF FitCells = {}
       THEN ret.fit.bytes_to_copy = 0 /\ ret.fit.bytes_var_to_copy = 0
       ELSE /\ ret.fit.bytes_to_copy =
                 (SetMax(FitCells) - ret.start_cell_pos + 1) * TILEDB_CELL_VAR_OFFSET_SIZE
            /\ ret.fit.bytes_var_to_copy =
                 FitOff(SetMax(FitCells) + 1) - FitOff(ret.start_cell_pos)

(***************************************************************************)
(* The copy over the cell position intervals of a sparse tile.             *)
(***************************************************************************)
\* The bytes of the file of the attribute the caller has received so far.
Delivered(attribute_id) ==
  LET b == hist.acc[attribute_id].buffer
  IN UNION {b[j][1]..(b[j][1] + b[j][2] - 1) : j \in {n \in 1..Len(b) : b[n][1] # Junk}}

\* The last call left the fixed attribute of its i-th buffer with the
\* overflow flag set, inside a loaded sparse tile of partial non-contiguous
\* overlap.
StoppedInIntervals(i) ==
  /\ ~array.dense /\ ret.rc = "OK"
  /\ ~var_size(ret.out[i].attribute_id)
  /\ ret.out[i].overflow
  /\ Designates(ret.post, ret.out[i].attribute_id)
  /\ Designated(ret.post, ret.out[i].attribute_id).overlap_ = "PARTIAL_NON_CONTIG"
  /\ Designated(ret.post, ret.out[i].attribute_id).cell_pos_ranges_ # <<>>
  /\ ret.post.tiles_[ret.out[i].attribute_id] =
       Designated(ret.post, ret.out[i].attribute_id).pos_

\* The resume index is an interval of the tile, the tile cursor is inside
\* that interval, and every cell of the intervals that lies before the
\* cursor has been delivered.
ResumesInInterval(attribute_id) ==
  LET ranges == Designated(ret.post, attribute_id).cell_pos_ranges_
      pos == Designated(ret.post, attribute_id).pos_
      i == ret.post.cell_pos_range_pos_[attribute_id]
      cursor == ret.post.tiles_offsets_[attribute_id]
      size == cell_size(attribute_id)
  IN /\ i >= 0 /\ i < Len(ranges)
     /\ cursor >= ranges[i + 1][1] * size
     /\ cursor <= (ranges[i + 1][2] + 1) * size - 1
     /\ \A k \in Covered(ranges) :
           k * size < cursor =>
             (pos * tile_size(attribute_id) + k * size) \in Delivered(attribute_id)

\* C22: sparse interval copy with resume index.  When the copy of a fixed
\* attribute over the cell position intervals of a tile runs out of output
\* space inside interval i, the resume index recorded is i and the tile
\* cursor stays inside interval i: no cell of interval i or of a later
\* interval is skipped by the next call.
C22_ResumeIndex ==
  \A i \in 1..Len(ret.out) :
     StoppedInIntervals(i) => ResumesInInterval(ret.out[i].attribute_id)

(***************************************************************************)
(* The rebasing of the offsets of variable-sized cells.                    *)
(***************************************************************************)
\* The copy steps of the last call that emitted entries.
EmittingSteps == {n \in 1..Len(ret.steps) : ret.steps[n].emitted > 0}

\* The step rebased the entries it emitted: the first one is the cursor of
\* the variable buffer before the step, and consecutive ones differ as the
\* offsets of their cells in the tile do.
RebasedEmitted(s) ==
  LET p == s.buffer_offset \div TILEDB_CELL_VAR_OFFSET_SIZE
  IN /\ Len(s.after) = p + s.emitted
     /\ s.after[p + 1][2] = s.buffer_var_offset
     /\ \A j \in 1..(s.emitted - 1) :
           /\ s.after[p + j][1] # Junk /\ s.after[p + j + 1][1] # Junk
           /\ s.after[p + j + 1][2] - s.after[p + j][2] =
                VarFileOffset(s.after[p + j + 1][1]) - VarFileOffset(s.after[p + j][1])

\* The step modified no entry but those it emitted.
OnlyEmittedModified(s) ==
  LET p == s.buffer_offset \div TILEDB_CELL_VAR_OFFSET_SIZE
  IN /\ s.shift_at >= s.buffer_offset
     /\ s.shift_at \div TILEDB_CELL_VAR_OFFSET_SIZE + s.offset_num <= p + s.emitted
     /\ \A j \in 1..Min(p, Len(s.before)) : s.after[j] = s.before[j]

\* C23: rebasing at copy time.  In every copy step of an attribute of
\* variable-sized cells the offset entries the step emits are rebased in
\* place: the first emitted entry is the cursor of the variable buffer of
\* the caller before the step, consecutive emitted entries differ as the
\* tile-local offsets do, and no entry outside the emitted ones is modified.
C23_RebasedAtCopy ==
  \A n \in EmittingSteps :
     RebasedEmitted(ret.steps[n]) /\ OnlyEmittedModified(ret.steps[n])

\* C23 for what the step emits only.
C23_RebasedEmittedOnly ==
  \A n \in EmittingSteps : RebasedEmitted(ret.steps[n])

(***************************************************************************)
(* The assertions of the copy routines.                                    *)
(***************************************************************************)
\* C24: the sanity assertions of the copy routines hold in every reachable
\* state: no read call ends in a failed assert; in particular a copy routine
\* that stops short of the end of its region and reports overflow has
\* filled the fixed buffer completely, for fixed and variable attributes.
C24_AssertionsHold == ret.rc # "ABORT"

(***************************************************************************)
(* The cell-interval lists of the overlapping-tile entries.                *)
(***************************************************************************)
\* The entries of the list of overlapping tiles after the last call.
Entries == {rs.overlapping_tiles_[i] : i \in 1..Len(rs.overlapping_tiles_)}

\* C25: cell-interval list by overlap kind.  In every reachable state an
\* entry of Full overlap has an empty list of cell intervals, a sparse entry
\* of PartialNonContig overlap has at least one interval and a sparse entry
\* of PartialContig overlap has at most one.
C25_IntervalsByOverlap ==
  \A e \in Entries :
     /\ e.overlap_ = "FULL" => Len(e.cell_pos_ranges_) = 0
     /\ ~array.dense /\ e.overlap_ = "PARTIAL_NON_CONTIG" => Len(e.cell_pos_ranges_) >= 1
     /\ ~array.dense /\ e.overlap_ = "PARTIAL_CONTIG" => Len(e.cell_pos_ranges_) <= 1

\* C25 without the lower bound for PartialNonContig entries.
C25_IntervalsUpperBound ==
  \A e \in Entries :
     /\ e.overlap_ = "FULL" => Len(e.cell_pos_ranges_) = 0
     /\ ~array.dense /\ e.overlap_ = "PARTIAL_CONTIG" => Len(e.cell_pos_ranges_) <= 1

\* A sparse entry of PartialNonContig overlap without any interval, next to
\* none that breaks the bounds above.
C25_Witness ==
  /\ ~array.dense
  /\ ret.rc = "OK"
  /\ \E e \in Entries : e.overlap_ = "PARTIAL_NON_CONTIG" /\ Len(e.cell_pos_ranges_) = 0

(***************************************************************************)
(* The bounds of the cell intervals.                                       *)
(***************************************************************************)
\* The intervals of an entry lie among the cells of the entry.
IntervalsInTile(e) ==
  \A n \in 1..Len(e.cell_pos_ranges_) :
     /\ 0 <= e.cell_pos_ranges_[n][1]
     /\ e.cell_pos_ranges_[n][1] <= e.cell_pos_ranges_[n][2]
     /\ e.cell_pos_ranges_[n][2] <= e.cell_num_ - 1

\* C26: every interval [first, last] of cell positions recorded for the
\* entry of a sparse overlapping tile satisfies
\* 0 <= first <= last <= cell_num - 1, cell_num being the number of cells of
\* that entry; also on the last, partially filled tile of the fragment and
\* when the cell order is Hilbert.
C26_IntervalsInTile ==
  ~array.dense => \A e \in Entries : IntervalsInTile(e)

(***************************************************************************)
(* One run of copy_from_tile_buffer_full.                                  *)
(***************************************************************************)
\* What the claim says of one run f of copy_from_tile_buffer_full.
FullCopyContract(f) ==
  LET n == Min(f.tile_size - f.cursor, f.buffer_size - f.buffer_offset)
  IN /\ f.copied = n
     /\ f.cursor_after = f.cursor + n
     /\ f.buffer_offset_after = f.buffer_offset + n
     /\ \/ /\ f.cursor_after = f.tile_size
           /\ f.pos_after = f.pos + 1
           /\ f.overflow_after = f.overflow
        \/ /\ f.cursor_after < f.tile_size
           /\ f.overflow_after
           /\ f.pos_after = f.pos

\* C27: fixed-sized cells, Full overlap.  One run of
\* copy_from_tile_buffer_full copies exactly min(tile_size - cursor,
\* output_free) bytes and advances the tile cursor and the output offset by
\* that amount; then either the cursor equals the tile size and the tile
\* position of the attribute is advanced by one with the overflow flag
\* untouched, or the cursor is short of the tile size, the overflow flag is
\* set and the tile position is unchanged.
C27_FullCopy ==
  \A n \in 1..Len(ret.copies) :
     ret.copies[n].kind = "full" => FullCopyContract(ret.copies[n])

\* C27 for the runs entered with the output offset inside the buffer.
C27_FullCopyInsideBuffer ==
  \A n \in 1..Len(ret.copies) :
     /\ ret.copies[n].kind = "full"
     /\ ret.copies[n].buffer_offset <= ret.copies[n].buffer_size
     => FullCopyContract(ret.copies[n])

(***************************************************************************)
(* The slab walk of a dense tile of PartialNonContig overlap.              *)
(***************************************************************************)
RECURSIVE SegWithin(_, _, _)
\* The bytes of a sequence of segments that lie in the bytes lo .. hi - 1 of
\* the file, in the order of the sequence.
SegWithin(buf, lo, hi) ==
  IF buf = <<>> THEN <<>>
  ELSE LET s == buf[Len(buf)]
           first == Max(s[1], lo)
           last == Min(s[1] + s[2], hi)
       IN With(SegWithin(SubSeq(buf, 1, Len(buf) - 1), lo, hi), LAMBDA rest :
          IF s[1] = Junk THEN rest ELSE AppendSeg(rest, first, last - first))

RECURSIVE BoxRows(_, _, _, _)
\* The cells of the overlap box r of the tile whose bytes start at byte base
\* of the file, from row i on: one slab after the other.
BoxRows(base, r, i, attribute_id) ==
  IF i > r[2] THEN <<>>
  ELSE SegConcat(
         << <<base + get_cell_pos(<<i, r[3]>>) * cell_size(attribute_id),
              cell_num_in_range_slab(r) * cell_size(attribute_id)>> >>,
         BoxRows(base, r, i + 1, attribute_id))

\* The run f of the slab walk has left its tile.
LeftTile(f) == f.kind = "slabs" /\ f.pos_after = f.pos + 1

\* What the caller has received of the tile of the run f, and the cells of
\* its overlap box.
TileReceived(f) ==
  SegWithin(hist.acc[f.attribute_id].buffer,
            f.tile.pos_ * tile_size(f.attribute_id),
            (f.tile.pos_ + 1) * tile_size(f.attribute_id))

TileBox(f) ==
  BoxRows(f.tile.pos_ * tile_size(f.attribute_id), f.tile.overlap_range_,
          f.tile.overlap_range_[1], f.attribute_id)

C29_CursorInTile ==
  \A a \in 0..attribute_num : rs.tiles_offsets_[a] <= rs.tiles_sizes_[a]

(***************************************************************************)
(* The two cursors of a variable attribute.                                *)
(***************************************************************************)
\* The offset, in the tile of variable-sized values at position pos, of the
\* value of the cell at position i of the tile.
LocalOffset(pos, i) ==
  VarFileOffset(FirstCell(pos) + i) - VarFileOffset(FirstCell(pos))

\* The tile of the variable attribute a is loaded and partly drained.
PartlyDrained(a) ==
  /\ var_size(a)
  /\ rs.tiles_[a] >= 0
  /\ rs.tiles_offsets_[a] > 0
  /\ rs.tiles_offsets_[a] < rs.tiles_sizes_[a]

\* C30: the mirror cursor.  For a variable attribute whose tile is loaded
\* and only partly drained, the cursor into the tile of variable-sized
\* values is the tile-local offset of the cell at the cursor into the
\* offsets tile (tiles_var_offsets_ = off[tiles_offsets_ / 8]): both streams
\* refer to the same next cell.
C30_MirrorCursor ==
  \A a \in 0..attribute_num :
     PartlyDrained(a) =>
       rs.tiles_var_offsets_[a] =
         LocalOffset(rs.tiles_[a], rs.tiles_offsets_[a] \div TILEDB_CELL_VAR_OFFSET_SIZE)

(***************************************************************************)
(* The constructor alone: a read state is constructed for one query after  *)
(* the other, over sparse fragments of each cell order and dense arrays,   *)
(* with ranges that reach below and above the domain.                      *)
(***************************************************************************)
MaxCoord == 4

SearchRanges ==
  {r \in [1..4 -> (0 - 1)..MaxCoord] : r[1] <= r[2] /\ r[3] <= r[4] /\ r[3] >= 0}

SearchQueries ==
  {[Query(FALSE, r, <<0>>, {}, {}, FALSE, FALSE) EXCEPT !.cell_order = o] :
     r \in SearchRanges, o \in {"ROW_MAJOR", "COL_MAJOR"}}
  \cup {Query(TRUE, r, <<0>>, {}, {}, FALSE, FALSE) : r \in SearchRanges}

InitSearch == Start(SearchQueries)

\* The queries that differ from q in the kind of the fragment only (dense
\* or sparse, cell order), or in one bound of the range by one.
Neighbours(q) ==
  {p \in SearchQueries :
     \/ p.range = q.range /\ p # q
     \/ /\ p.cell_order = q.cell_order
        /\ p.dense = q.dense
        /\ \E i \in 1..4 :
             /\ p.range[i] - q.range[i] \in {0 - 1, 1}
             /\ \A j \in (1..4) \ {i} : p.range[j] = q.range[j]}

\* ReadState::ReadState for the query q.
Construct(q) ==
  /\ array' = q
  /\ rs' = ReadState'
  /\ ret' = NoCall'
  /\ UNCHANGED hist

Constructs == \E q \in Neighbours(array) : Construct(q)

NextSearch == Constructs

SpecSearch == InitSearch /\ [][NextSearch]_vars

\* The minimum and the maximum corner of the range.
RangeMin == <<array.range[1], array.range[3]>>

RangeMax == <<array.range[2], array.range[4]>>

\* The first tile whose last bounding coordinate is not before the minimum
\* corner (tile_num if there is none), and the last tile whose first
\* bounding coordinate is not after the maximum corner (-1 if there is none).
FirstTile ==
  SetMin({t \in 0..(tile_num - 1) : cmp_order(bounding_coords(t)[2], RangeMin) >= 0}
         \cup {tile_num})

LastTile ==
  0 - SetMin({0 - t : t \in {u \in 0..(tile_num - 1) :
                               cmp_order(bounding_coords(u)[1], RangeMax) <= 0}}
             \cup {1})

\* A read state just constructed for a sparse fragment of a row-major or
\* column-major array and a range that is not unary.
SearchCase ==
  /\ ~array.dense
  /\ array.cell_order \in {"ROW_MAJOR", "COL_MAJOR"}
  /\ ~is_unary_range(array.range)
  /\ ret.rc = "INIT"

\* C31: the tile search range of a sparse fragment, row-major or
\* column-major, for a range that is not unary.  The initializer sets first
\* to the first tile whose last bounding coordinate is >= the minimum corner
\* of the range and last to the last tile whose first bounding coordinate is
\* <= the maximum corner, in the cell order; the constructor pushes the
\* sentinel entry of overlap None exactly when last < first.
C31_TileSearchRange ==
  SearchCase =>
    /\ rs.tile_search_range_ = <<FirstTile, LastTile>>
    /\ rs.overlapping_tiles_ = IF LastTile < FirstTile THEN <<SentinelTile>> ELSE <<>>

\* A column-major fragment whose range falls between two tiles: the
\* sentinel is pushed although tiles lie on both sides.
C31_WitnessGap ==
  /\ SearchCase
  /\ array.cell_order = "COL_MAJOR"
  /\ LastTile < FirstTile
  /\ FirstTile < tile_num
  /\ LastTile >= 0
  /\ rs.overlapping_tiles_ = <<SentinelTile>>

(***************************************************************************)
(* The entries the iterators push.  Both iterators end with the reaper,    *)
(* which nothing else calls: the list a reap found ends with the entry     *)
(* just pushed.                                                            *)
(***************************************************************************)
Last(list) == list[Len(list)]

\* The entry push n of the call appended.
PushedEntry(n) == Last(ret.reaps[n].before.overlapping_tiles_)

\* The entry pushed before push n: the last one of the list before the
\* previous push was reaped, or the last one of the list the call found.
PushedBefore(n) ==
  IF n > 1 THEN <<PushedEntry(n - 1)>>
  ELSE IF Len(ret.start.overlapping_tiles_) > 0 THEN <<Last(ret.start.overlapping_tiles_)>>
  ELSE <<>>

\* Push n appended a tile after the tile of the entry pushed before it; a
\* position that was never assigned is indeterminate.
PushedForward(n) ==
  \A i \in 1..Len(PushedBefore(n)) :
     /\ PushedEntry(n).pos_ # Junk
     /\ PushedBefore(n)[i].pos_ # Junk
     /\ PushedEntry(n).pos_ > PushedBefore(n)[i].pos_

\* Nothing was pushed behind an entry of overlap None.
PushedBehindTiles(n) ==
  \A i \in 1..Len(PushedBefore(n)) : PushedBefore(n)[i].overlap_ # "NONE"

\* C32: the overlapping-tiles list is strictly increasing in the tile
\* position.  Every entry an iterator pushes has a tile position greater
\* than that of the entry pushed before it, and the sparse iterator pushes an
\* entry of overlap None only as the single, final sentinel.
C32_PushesIncrease ==
  \A n \in 1..Len(ret.reaps) :
     /\ PushedForward(n)
     /\ ~array.dense => PushedBehindTiles(n)

\* The part of C32 about the entries that have a tile: the entries of the
\* list that overlap the range are in strictly increasing tile position.
C32_TilesIncrease ==
  \A n \in 1..Len(ret.reaps) :
     \A i \in 1..Len(PushedBefore(n)) :
        PushedEntry(n).overlap_ # "NONE" =>
          /\ PushedBefore(n)[i].overlap_ # "NONE"
          /\ PushedEntry(n).pos_ > PushedBefore(n)[i].pos_

\* The attribute has nothing left to deliver: its position designates the
\* last entry of the list, which is an entry of overlap None.
AtFinalNone(r, attribute_id) ==
  /\ Designates(r, attribute_id)
  /\ r.overlapping_tiles_pos_[attribute_id] = Len(r.overlapping_tiles_) - 1
  /\ Designated(r, attribute_id).overlap_ = "NONE"

\* The caller has received cell k of the attribute in one of the calls so
\* far: its bytes (fixed-sized cells), or its entry in an offsets buffer.
CellDelivered(attribute_id, k) ==
  IF var_size(attribute_id)
  THEN \E i \in 1..Len(hist.acc[attribute_id].buffer) :
          hist.acc[attribute_id].buffer[i] = k
  ELSE \E i \in 1..Len(hist.acc[attribute_id].buffer) :
          LET s == hist.acc[attribute_id].buffer[i]
          IN /\ s[1] # Junk
             /\ s[1] <= k * cell_size(attribute_id)
             /\ (k + 1) * cell_size(attribute_id) <= s[1] + s[2]

\* A call in the normal read mode has returned success and has left the
\* overflow flag of the requested, non-empty attribute false.
ReturnedWithoutOverflow(attribute_id) ==
  /\ ret.rc = "OK"
  /\ array.mode = "TILEDB_READ"
  /\ Requested(attribute_id)
  /\ ~is_empty_attribute(attribute_id)
  /\ ~rs.overflow_[attribute_id]

\* C33: if a successful read call in the normal read mode returns with the
\* overflow flag of a requested, non-empty attribute false, no qualifying
\* cell of that attribute remains undelivered: the position of the attribute
\* designates the final entry of overlap None.
C33_NoOverflowMeansExhausted ==
  \A a \in 0..attribute_num :
     ReturnedWithoutOverflow(a) =>
       /\ AtFinalNone(rs, a)
       /\ \A i \in 1..Len(QualifyingCells) : CellDelivered(a, QualifyingCells[i])

\* The second half of C33 alone: the position of the attribute designates
\* the final entry of overlap None.
C33_AtFinalNone ==
  \A a \in 0..attribute_num : ReturnedWithoutOverflow(a) => AtFinalNone(rs, a)

\* The call started with the attribute exhausted: an earlier call had
\* returned with its overflow flag false and its position at the final entry
\* of overlap None.
StartedExhausted(attribute_id) ==
  /\ hist.calls >= 2
  /\ Requested(attribute_id)
  /\ ~is_empty_attribute(attribute_id)
  /\ ~ret.start.overflow_[attribute_id]
  /\ AtFinalNone(ret.start, attribute_id)

\* The cursors of an attribute.
Cursors(r, attribute_id) ==
  <<r.overlapping_tiles_pos_[attribute_id], r.tiles_offsets_[attribute_id],
    r.cell_pos_range_pos_[attribute_id],
    IF attribute_id < attribute_num THEN r.tiles_var_offsets_[attribute_id] ELSE 0>>

\* The call reported nothing for the attribute of its i-th buffer and left
\* its overflow flag false.
ReportedNothing(i) ==
  /\ ret.out[i].buffer_offset = 0
  /\ ret.out[i].buffer_size = 0
  /\ ret.out[i].buffer_var_offset = 0
  /\ ret.out[i].buffer_var_size = 0
  /\ ~ret.out[i].overflow
  /\ ~ret.post.overflow_[ret.out[i].attribute_id]

\* C34: exhaustion is stable.  Once a read call has returned for an
\* attribute with overflow false because no tile remained, every later read
\* call with non-zero buffers returns, reports zero bytes for the attribute
\* with overflow false, changes none of its cursors and pushes no further
\* entry on the overlapping-tiles list.
C34_ExhaustionStable ==
  \A i \in 1..Len(ret.sizes) :
     (/\ StartedExhausted(array.attribute_ids[i])
      /\ ~IsZero(ret.sizes[i], array.attribute_ids[i]))
     => /\ ret.rc = "OK"
        /\ Len(ret.out) >= i
        /\ ReportedNothing(i)
        /\ Cursors(ret.post, array.attribute_ids[i])
             = Cursors(ret.start, array.attribute_ids[i])
        /\ \A j \in 1..Len(ret.reaps) :
              ret.reaps[j].before.overlapping_tiles_pos_[array.attribute_ids[i]]
                < Len(ret.reaps[j].before.overlapping_tiles_) - 1

\* The read of the attribute of the i-th entry of out went on until the
\* attribute overflowed or was exhausted.
ReadToTheEnd(i) ==
  \/ ret.out[i].overflow
  \/ is_empty_attribute(ret.out[i].attribute_id)
  \/ AtFinalNone(ret.post, ret.out[i].attribute_id)

\* C35: within one read call an overflow on one requested attribute does not
\* end the call.  Every attribute requested after it is still read, into its
\* own buffers, until it overflows itself or is exhausted; only an error
\* return stops the processing of the remaining attributes.
C35_OverflowDoesNotEndCall ==
  (Returned /\ array.mode = "TILEDB_READ") =>
    /\ ret.rc = "OK" => Len(ret.out) = Len(array.attribute_ids)
    /\ \A i \in 1..Len(ret.out) :
          /\ ret.out[i].attribute_id = array.attribute_ids[i]
          /\ i < Len(ret.out) => ret.out[i].rc = "OK"
          /\ ret.out[i].rc = "OK" => ReadToTheEnd(i)
          /\ \A j \in 1..(i - 1) :
                \A s \in 1..Len(ret.out[i].slots) :
                   \A t \in 1..Len(ret.out[j].slots) :
                      ret.out[i].slots[s] # ret.out[j].slots[t]

\* The first of two attributes overflows and the second one is read to its
\* end without overflow.
C35_Witness ==
  /\ ret.rc = "OK"
  /\ Len(ret.out) = 2
  /\ ret.out[1].overflow
  /\ ~ret.out[2].overflow
  /\ ret.out[2].buffer_offset > 0
  /\ AtFinalNone(ret.post, ret.out[2].attribute_id)

\* The read state r with the overflow flag of the attribute set.
Overflowed(r, attribute_id) == [r EXCEPT !.overflow_[attribute_id] = TRUE]

\* C36: zero-sized buffer.  If the caller passes a buffer of size 0 for a
\* requested attribute (for a variable attribute, either of its two
\* buffers), read sets the overflow flag of the attribute, reports zero
\* bytes for all of its buffers, and leaves its cursors and the
\* overlapping-tiles list unchanged.  pre is the read state as the read of
\* the last attribute of the call found it.
C36_ZeroSizedBuffer ==
  array.mode = "TILEDB_READ" =>
    \A i \in 1..Len(ret.out) :
       IsZero(ret.sizes[i], ret.out[i].attribute_id) =>
         /\ ret.out[i].rc = "OK"
         /\ ret.out[i].overflow
         /\ ret.out[i].buffer_size = 0
         /\ ret.out[i].buffer_var_size = 0
         /\ ret.out[i].buffer = <<>>
         /\ ret.out[i].buffer_var = <<>>
         /\ i = Len(ret.out) =>
              ret.post = Overflowed(ret.pre, ret.out[i].attribute_id)

\* A zero-sized buffer for an attribute that is in the middle of a tile:
\* an earlier call has left it there.
C36_Witness ==
  /\ array.mode = "TILEDB_READ"
  /\ ret.rc = "OK"
  /\ \E i \in 1..Len(ret.out) :
        /\ i = Len(ret.out)
        /\ IsZero(ret.sizes[i], ret.out[i].attribute_id)
        /\ var_size(ret.out[i].attribute_id)
        /\ ret.sizes[i].fixed > 0
        /\ ret.out[i].overflow
        /\ ret.pre.tiles_offsets_[ret.out[i].attribute_id] > 0
        /\ ret.pre.tiles_offsets_[ret.out[i].attribute_id]
             < ret.pre.tiles_sizes_[ret.out[i].attribute_id]

\* The interval of tile coordinates of the range in dimension d, as the
\* specification computes it: with the quotients rounded down.
BoxInterval(d) ==
  <<Max((array.range[2 * d - 1] - domain[2 * d - 1]) \div tile_extents[d],
        tile_domain[2 * d - 1]),
    Min((array.range[2 * d] - domain[2 * d - 1]) \div tile_extents[d],
        tile_domain[2 * d])>>

BoxEmpty == \E d \in 1..dim_num : BoxInterval(d)[1] > BoxInterval(d)[2]

\* A read state just constructed for a dense array.
DenseCase == array.dense /\ ret.rc = "INIT"

\* The entry the first call of the iterator pushes.
FirstTileReturned ==
  get_next_overlapping_tile_dense(NewContext(NoFault)).rs.overlapping_tiles_[1]

\* C37: dense start.  The constructor pushes the single sentinel entry of
\* overlap None exactly when in some dimension i the interval
\* [max(floor((range_lo - domain_lo) / extent), tile_lo),
\*  min(floor((range_hi - domain_lo) / extent), tile_hi)] is empty, also for
\* ranges that start or end below the lower bound of the domain; otherwise
\* the list is empty after the construction and the first tile returned is
\* the lower corner of that box.
C37_DenseStart ==
  DenseCase =>
    IF BoxEmpty THEN rs.overlapping_tiles_ = <<SentinelTile>>
    ELSE /\ rs.overlapping_tiles_ = <<>>
         /\ FirstTileReturned.coords_ = <<BoxInterval(1)[1], BoxInterval(2)[1]>>

\* C37 for the ranges that do not end below the lower bound of the domain.
C37_DenseStartInDomain ==
  (DenseCase /\ \A d \in 1..dim_num : array.range[2 * d] >= domain[2 * d - 1])
    => C37_DenseStart

\* The number of munmap calls of a function call that target the address
\* the slot held on entry.
RECURSIVE ReleasesOfPrevious(_)
ReleasesOfPrevious(unmaps) ==
  IF unmaps = <<>> THEN 0
  ELSE (IF unmaps[1].target = "previous" THEN 1 ELSE 0)
       + ReleasesOfPrevious(Tail(unmaps))

\* C38: the mapping protocol of the builds that map the files.  Every
\* munmap targets a mapping that is live at that moment; the previous
\* mapping of a slot (attribute slot, variable slot or compressed scratch) is
\* released exactly once before the slot is mapped again, also when the open
\* of the file that follows the release fails.
C38_MappingProtocol ==
  \A n \in 1..Len(ret.maps) :
     /\ \A k \in 1..Len(ret.maps[n].unmaps) : ret.maps[n].unmaps[k].live
     /\ ReleasesOfPrevious(ret.maps[n].unmaps) = IF ret.maps[n].held THEN 1 ELSE 0

\* C38 for the slots of the uncompressed tiles.
C38_MappingProtocolUncompressed ==
  \A n \in 1..Len(ret.maps) :
     ret.maps[n].slot[1] # "map_addr_compressed_" =>
       /\ \A k \in 1..Len(ret.maps[n].unmaps) : ret.maps[n].unmaps[k].live
       /\ ReleasesOfPrevious(ret.maps[n].unmaps) = IF ret.maps[n].held THEN 1 ELSE 0

(***************************************************************************)
(* Destruction.                                                            *)
(***************************************************************************)
\* The member of map_addr_, map_addr_var_ or map_addr_compressed_ the
\* destructor tests before it frees a tile pointer.
MapSlotOf(slot) ==
  CASE slot[1] = "tiles_" -> <<"map_addr_", slot[2]>>
    [] slot[1] = "tiles_var_" -> <<"map_addr_var_", slot[2]>>
    [] OTHER -> <<"map_addr_compressed_", 0>>

MapSlots ==
  {<<"map_addr_", i>> : i \in 0..attribute_num}
  \cup {<<"map_addr_var_", i>> : i \in 0..attribute_num}
  \cup {<<"map_addr_compressed_", 0>>}

MapAddr(r, slot) ==
  CASE slot[1] = "map_addr_" -> r.map_addr_[slot[2]]
    [] slot[1] = "map_addr_var_" -> r.map_addr_var_[slot[2]]
    [] OTHER -> r.map_addr_compressed_

\* ~ReadState of the state r that owns the memory m: the heap blocks of the
\* entries of the list it frees (entries), the tile pointers it passes to
\* free (frees), whether it frees range_in_tile_domain_ (range) and the
\* slots it passes to munmap (unmaps).
Destructor(r, m) ==
  [entries |-> ListBlocks(r.overlapping_tiles_),
   frees |-> {s \in TileSlots : MapAddr(r, MapSlotOf(s)) = NULL /\ m.at[s] # "null"},
   range |-> r.range_in_tile_domain_ # <<>>,
   unmaps |-> {s \in MapSlots : MapAddr(r, s) # NULL}]

\* The ReadState is destroyed after a call that returned, or before any.
Destroy ==
  /\ ret.rc \in {"INIT", "OK", "ERR"}
  /\ ret' = [released |-> Destructor(rs, hist.mem)] @@ [ret EXCEPT !.rc = "DESTROYED"]
  /\ UNCHANGED <<array, rs, hist>>

\* Queries of the runs that end with the destruction: those of the runs with
\* faults, and queries of the coordinates, uncompressed and compressed, in
\* both builds of the I/O.
DestroyQueries ==
  FaultQueries
  \cup
  {Query(FALSE, r, <<attribute_num>>, z, {}, FALSE, m) :
     r \in {<<0, 2, 0, 3>>, <<0, 2, 0, 1>>}, z \in {{}, {attribute_num}},
     m \in BOOLEAN}

InitDestroy == Start(DestroyQueries)

\* What the searches of mapped bytes that are not coordinates find.
Searches == {[at |-> n, kind |-> "search"] : n \in 0..1}

ReadSearch ==
  \E sizes \in FewSizesOf(array.attribute_ids), fault \in Searches : Call(sizes, fault)

NextDestroy == ReadFew \/ ReadFault \/ ReadSearch \/ Destroy

SpecDestroy == InitDestroy /\ [][NextDestroy]_vars

Destroyed == ret.rc = "DESTROYED"

\* The destructor passes to free only pointers to heap blocks, and every
\* tile pointer to a heap block.
FreesHeapBuffers ==
  /\ \A s \in ret.released.frees : hist.mem.at[s] = "heap"
  /\ \A s \in TileSlots : hist.mem.at[s] = "heap" => s \in ret.released.frees

\* Everything else the ReadState owns is released by the destructor.
ReleasesTheRest ==
  /\ ret.released.unmaps = hist.mem.live
  /\ ret.released.entries = hist.mem.entries
  /\ ret.released.range = array.dense

\* C39: destroying the read state after any sequence of read calls that
\* returned (with success, overflow or an error) releases every heap tile
\* buffer, every live mapping, the compressed scratch buffer, the range in
\* the tile domain and the heap fields of every entry still in the list
\* exactly once: no heap block is left, nothing the reaper freed is freed
\* again, and no mapped buffer is passed to free.
C39_DestructorReleasesAll ==
  Destroyed => FreesHeapBuffers /\ ReleasesTheRest /\ hist.mem.lost = 0

\* The same for the fragments whose coordinates are not compressed.
C39_DestructorUncompressedCoords ==
  Destroyed /\ array.compression[attribute_num] = "NONE"
    => FreesHeapBuffers /\ ReleasesTheRest /\ hist.mem.lost = 0

\* A read call in the reverse read mode is the last call made.
ReverseCall == array.mode = "TILEDB_READ_REVERSE" /\ hist.calls >= 1

\* C40: in the reverse read mode read returns success and changes nothing
\* but the overflow flags, which it clears: no caller buffer is written, no
\* buffer size is modified (no attribute is read), no cursor moves and the
\* list of overlapping tiles is as it was.
C40_ReverseReadChangesNothing ==
  ReverseCall =>
    /\ ret.rc = "OK"
    /\ ret.out = <<>>
    /\ ret.copies = <<>> /\ ret.reaps = <<>>
    /\ ret.post = [ret.start EXCEPT !.overflow_ = [i \in DOMAIN @ |-> FALSE]]
    /\ rs = ret.post

\* Two calls have been made in the reverse read mode.
C40_Witness ==
  /\ ReverseCall /\ hist.calls = 2
  /\ ret.rc = "OK" /\ ret.sizes[1].fixed = Large
  /\ rs.overlapping_tiles_ = <<>>

====
